---- MODULE Spec2Model ----
(***************************************************************************)
(* A model of the TRN (Tool Resource Name) library: constants.py,          *)
(* parser.py, validator.py, core.py, url_converter.py and utils.py.        *)
(*                                                                         *)
(* A Python str is a sequence of one-character strings.  None is the       *)
(* one-element sequence NONE, which no character sequence equals, so that  *)
(* None and "" stay different values.  A raised exception is a record      *)
(* naming its class.                                                       *)
(***************************************************************************)
EXTENDS Integers, Sequences, FiniteSets, TLC

VARIABLES
    validation_cache,          \* TRNValidator._validation_cache, in insertion order
    cache_size,                \* TRNValidator._cache_size
    max_cache_size,            \* TRNValidator._max_cache_size
    cache_validation_results,  \* DEFAULT_CONFIG["cache_validation_results"]
    last,                      \* the last call made and what the caller observed
    input,                     \* the value the calls are applied to
    done,                      \* the calls already made on input
    out                        \* what those calls returned

vars == <<validation_cache, cache_size, max_cache_size, cache_validation_results,
          last, input, done, out>>

-----------------------------------------------------------------------------
(* Characters and Python's str methods                                     *)

NONE == <<"None">>

LowerChars == {"a","b","c","d","e","f","g","h","i","j","k","l","m",
               "n","o","p","q","r","s","t","u","v","w","x","y","z"}

UpperChars == {"A","B","C","D","E","F","G","H","I","J","K","L","M",
               "N","O","P","Q","R","S","T","U","V","W","X","Y","Z"}

DigitChars == {"0","1","2","3","4","5","6","7","8","9"}

HexChars == DigitChars \cup {"a","b","c","d","e","f"}

Whitespace == {" ", "\t", "\n", "\r"}

UpperToLower ==
    [c \in UpperChars |->
        CASE c = "A" -> "a" [] c = "B" -> "b" [] c = "C" -> "c" [] c = "D" -> "d"
          [] c = "E" -> "e" [] c = "F" -> "f" [] c = "G" -> "g" [] c = "H" -> "h"
          [] c = "I" -> "i" [] c = "J" -> "j" [] c = "K" -> "k" [] c = "L" -> "l"
          [] c = "M" -> "m" [] c = "N" -> "n" [] c = "O" -> "o" [] c = "P" -> "p"
          [] c = "Q" -> "q" [] c = "R" -> "r" [] c = "S" -> "s" [] c = "T" -> "t"
          [] c = "U" -> "u" [] c = "V" -> "v" [] c = "W" -> "w" [] c = "X" -> "x"
          [] c = "Y" -> "y" [] c = "Z" -> "z"]

\* str.lower()
Lower(s) == [i \in 1..Len(s) |-> IF s[i] \in UpperChars THEN UpperToLower[s[i]] ELSE s[i]]

RECURSIVE LStrip(_)
LStrip(s) == IF s # <<>> /\ Head(s) \in Whitespace THEN LStrip(Tail(s)) ELSE s

RECURSIVE RStrip(_)
RStrip(s) ==
    IF s # <<>> /\ s[Len(s)] \in Whitespace THEN RStrip(SubSeq(s, 1, Len(s) - 1)) ELSE s

\* str.strip()
Strip(s) == RStrip(LStrip(s))

\* c in s, for a one-character c
Contains(s, c) == \E i \in 1..Len(s) : s[i] = c

\* s.find(c) + 1, for a character the string contains
FirstIndex(s, c) == CHOOSE i \in 1..Len(s) : s[i] = c /\ \A j \in 1..(i - 1) : s[j] # c

\* s.rfind(c) + 1, for a character the string contains
LastIndex(s, c) == CHOOSE i \in 1..Len(s) : s[i] = c /\ \A j \in (i + 1)..Len(s) : s[j] # c

\* s.split(c): never empty, and empty pieces are kept
RECURSIVE SplitFrom(_, _, _, _)
SplitFrom(s, c, start, i) ==
    IF i > Len(s) THEN <<SubSeq(s, start, Len(s))>>
    ELSE IF s[i] = c THEN <<SubSeq(s, start, i - 1)>> \o SplitFrom(s, c, i + 1, i + 1)
    ELSE SplitFrom(s, c, start, i + 1)

Split(s, c) == SplitFrom(s, c, 1, 1)

\* c.join(parts)
RECURSIVE Join(_, _)
Join(parts, c) ==
    IF parts = <<>> THEN <<>>
    ELSE IF Len(parts) = 1 THEN parts[1]
    ELSE parts[1] \o <<c>> \o Join(Tail(parts), c)

\* s.startswith(p)
StartsWith(s, p) == Len(s) >= Len(p) /\ SubSeq(s, 1, Len(p)) = p

\* s.isalnum(), on ASCII
AlnumChars == LowerChars \cup UpperChars \cup DigitChars

IsAlnum(s) == s # <<>> /\ \A i \in 1..Len(s) : s[i] \in AlnumChars

\* s.replace(c, "")
RECURSIVE Remove(_, _)
Remove(s, c) ==
    IF s = <<>> THEN <<>>
    ELSE IF Head(s) = c THEN Remove(Tail(s), c)
    ELSE <<Head(s)>> \o Remove(Tail(s), c)

\* re.sub(r":+", ":", s)
RECURSIVE CollapseColons(_)
CollapseColons(s) ==
    IF Len(s) < 2 THEN s
    ELSE IF s[1] = ":" /\ s[2] = ":" THEN CollapseColons(Tail(s))
    ELSE <<s[1]>> \o CollapseColons(Tail(s))

-----------------------------------------------------------------------------
(* constants.py                                                            *)

TRN_MAX_LENGTH == 256
TRN_MIN_LENGTH == 10

PLATFORM_MAX_LENGTH == 32
SCOPE_MAX_LENGTH == 32
RESOURCE_TYPE_MAX_LENGTH == 16
TYPE_MAX_LENGTH == 32
SUBTYPE_MAX_LENGTH == 32
INSTANCE_ID_MAX_LENGTH == 64
VERSION_MAX_LENGTH == 32
TAG_MAX_LENGTH == 16
HASH_MAX_LENGTH == 71

\* a first character of `first`, then between lo and hi characters of `rest`
ClassMatch(s, first, rest, lo, hi) ==
    /\ Len(s) >= 1
    /\ s[1] \in first
    /\ Len(s) - 1 >= lo
    /\ Len(s) - 1 <= hi
    /\ \A i \in 2..Len(s) : s[i] \in rest

LowerOrDigit == LowerChars \cup DigitChars
NameChars == LowerOrDigit \cup {"-"}
VersionChars == NameChars \cup {"."}
HashChars == LowerOrDigit \cup {":"}

PLATFORM_PATTERN(s) == ClassMatch(s, LowerChars, NameChars, 1, 31)
SCOPE_PATTERN(s) == ClassMatch(s, LowerOrDigit, NameChars, 0, 31)
RESOURCE_TYPE_PATTERN(s) == ClassMatch(s, LowerChars, NameChars, 1, 15)
TYPE_PATTERN(s) == ClassMatch(s, LowerChars, NameChars, 1, 31)
SUBTYPE_PATTERN(s) == ClassMatch(s, LowerChars, NameChars, 1, 31)
INSTANCE_ID_PATTERN(s) == ClassMatch(s, LowerOrDigit, NameChars, 0, 63)
VERSION_PATTERN(s) == ClassMatch(s, LowerOrDigit, VersionChars, 0, 31)
TAG_PATTERN(s) == ClassMatch(s, LowerOrDigit, NameChars, 0, 15)
HASH_PATTERN(s) ==
    /\ Len(s) >= 8
    /\ Len(s) <= 71
    /\ \A i \in 1..Len(s) : s[i] \in HashChars

SUPPORTED_PLATFORMS ==
    {<<"a","i","p","l","a","t","f","o","r","m">>,
     <<"u","s","e","r">>,
     <<"o","r","g">>}

SUPPORTED_RESOURCE_TYPES ==
    {<<"t","o","o","l">>,
     <<"d","a","t","a","s","e","t">>,
     <<"p","i","p","e","l","i","n","e">>,
     <<"m","o","d","e","l">>}

SUPPORTED_TOOL_SUBTYPES ==
    {<<"a","s","y","n","c">>,
     <<"s","t","r","e","a","m","i","n","g">>,
     <<"b","a","t","c","h">>,
     <<"s","y","n","c">>,
     <<"r","e","a","l","t","i","m","e">>}

RESERVED_WORDS ==
    {<<"_","_","i","n","t","e","r","n","a","l","_","_">>,
     <<"_","_","s","y","s","t","e","m","_","_">>,
     <<"_","_","a","d","m","i","n","_","_">>,
     <<"_","_","t","e","s","t","_","_">>,
     <<"s","y","s","t","e","m">>,
     <<"i","n","t","e","r","n","a","l">>,
     <<"a","d","m","i","n">>,
     <<"r","o","o","t">>,
     <<"s","u","p","e","r">>,
     <<"n","u","l","l">>,
     <<"u","n","d","e","f","i","n","e","d">>,
     <<"r","e","s","e","r","v","e","d">>}

COMMON_ALIASES ==
    {<<"l","a","t","e","s","t">>,
     <<"s","t","a","b","l","e">>,
     <<"b","e","t","a">>,
     <<"a","l","p","h","a">>,
     <<"d","e","v">>,
     <<"e","x","p","e","r","i","m","e","n","t","a","l">>,
     <<"l","t","s">>,
     <<"r","c">>}

\* The text a pattern ending in $ has to consume: $ also matches just before a
\* newline that ends the string, and no character class holds a newline.
BeforeDollar(s) ==
    IF s # <<>> /\ s[Len(s)] = "\n" THEN SubSeq(s, 1, Len(s) - 1) ELSE s

\* HASH_FORMAT_PATTERN = ^(md5|sha1|sha256|sha512|crc32):[a-f0-9]+$, on the text
\* the pattern has to consume
HashFormat(t) ==
    \E alg \in {<<"m","d","5">>, <<"s","h","a","1">>, <<"s","h","a","2","5","6">>,
                <<"s","h","a","5","1","2">>, <<"c","r","c","3","2">>} :
        /\ StartsWith(t, alg \o <<":">>)
        /\ Len(t) > Len(alg) + 1
        /\ \A i \in (Len(alg) + 2)..Len(t) : t[i] \in HexChars

HASH_FORMAT_REGEX(s) == HashFormat(BeforeDollar(s))

\* the nine named components, in the order of the grammar
Components(platform, scope, resource_type, type, subtype, instance_id, version, tag, hash) ==
    [platform |-> platform, scope |-> scope, resource_type |-> resource_type,
     type |-> type, subtype |-> subtype, instance_id |-> instance_id,
     version |-> version, tag |-> tag, hash |-> hash]

NoComponents == Components(NONE, NONE, NONE, NONE, NONE, NONE, NONE, NONE, NONE)

\* The optional groups (scope, subtype, tag) in the order the regex engine tries
\* them: each optional group is greedy, so "present" is tried before "absent",
\* and the engine backtracks to the last choice first.
GroupChoices ==
    << <<1, 1, 1>>, <<1, 1, 0>>, <<1, 0, 1>>, <<1, 0, 0>>,
       <<0, 1, 1>>, <<0, 1, 0>>, <<0, 0, 1>>, <<0, 0, 0>> >>

\* the groups of one way to read the colon-separated fields
GroupsOf(fields, choice, hash) ==
    Components(fields[1],
               IF choice[1] = 1 THEN fields[2] ELSE NONE,
               fields[2 + choice[1]],
               fields[3 + choice[1]],
               IF choice[2] = 1 THEN fields[4 + choice[1]] ELSE NONE,
               fields[4 + choice[1] + choice[2]],
               fields[5 + choice[1] + choice[2]],
               IF choice[3] = 1 THEN fields[6 + choice[1] + choice[2]] ELSE NONE,
               hash)

GroupsMatch(g) ==
    /\ PLATFORM_PATTERN(g.platform)
    /\ g.scope # NONE => SCOPE_PATTERN(g.scope)
    /\ RESOURCE_TYPE_PATTERN(g.resource_type)
    /\ TYPE_PATTERN(g.type)
    /\ g.subtype # NONE => SUBTYPE_PATTERN(g.subtype)
    /\ INSTANCE_ID_PATTERN(g.instance_id)
    /\ VERSION_PATTERN(g.version)
    /\ g.tag # NONE => TAG_PATTERN(g.tag)
    /\ g.hash # NONE => HASH_PATTERN(g.hash)

\* the fields are as many as the choice k reads, and each group matches its
\* pattern
Fits(fields, hash, k) ==
    /\ Len(fields) = 5 + GroupChoices[k][1] + GroupChoices[k][2] + GroupChoices[k][3]
    /\ GroupsMatch(GroupsOf(fields, GroupChoices[k], hash))

\* the groups of the first choice that fits the fields
MatchFields(fields, hash) ==
    IF \E k \in 1..Len(GroupChoices) : Fits(fields, hash, k)
    THEN [matched |-> TRUE,
          groups |-> GroupsOf(fields,
                              GroupChoices[CHOOSE k \in 1..Len(GroupChoices) :
                                               /\ Fits(fields, hash, k)
                                               /\ \A j \in 1..(k - 1) : ~Fits(fields, hash, j)],
                              hash)]
    ELSE [matched |-> FALSE, groups |-> NoComponents]

\* the text before the first "@" is "trn" and the fields, the text after it
\* the hash
MatchText(t) ==
    IF ~StartsWith(t, <<"t","r","n",":">>) THEN [matched |-> FALSE, groups |-> NoComponents]
    ELSE IF Contains(t, "@")
    THEN MatchFields(Tail(Split(SubSeq(t, 1, FirstIndex(t, "@") - 1), ":")),
                     SubSeq(t, FirstIndex(t, "@") + 1, Len(t)))
    ELSE MatchFields(Tail(Split(t, ":")), NONE)

\* TRN_REGEX.match(s): [matched, groups].  No field class holds ":" or "@", so a
\* match reads the text before the first "@" as "trn" and 5 to 8 fields.
TRN_REGEX(s) == MatchText(BeforeDollar(s))

-----------------------------------------------------------------------------
(* exceptions.py: what a call does is the value it returns or the class of *)
(* the exception it raises, with the rule or component the exception names *)

Returned(v) == [error |-> "none", info |-> "", value |-> v]

Raised(kind, info, v) == [error |-> kind, info |-> info, value |-> v]

NoError == [error |-> "none", info |-> ""]

Error(kind, info) == [error |-> kind, info |-> info]

TRNFormatError(info) == Error("TRNFormatError", info)
TRNValidationError(rule) == Error("TRNValidationError", rule)
TRNComponentError(component) == Error("TRNComponentError", component)
TRNLengthError(info) == Error("TRNLengthError", info)
TRNCharacterError(info) == Error("TRNCharacterError", info)
TRNReservedWordError(component) == Error("TRNReservedWordError", component)

\* the exception of the first check of a sequence that raises
RECURSIVE FirstError(_)
FirstError(checks) ==
    IF checks = <<>> THEN NoError
    ELSE IF Head(checks).error # "none" THEN Head(checks)
    ELSE FirstError(Tail(checks))

\* `not value` of Python, for a str or None
Falsy(v) == v = NONE \/ v = <<>>

ComponentNames ==
    <<"platform", "scope", "resource_type", "type", "subtype", "instance_id",
      "version", "tag", "hash">>

-----------------------------------------------------------------------------
(* parser.py: the heuristics of the recovery parser                        *)

\* re.match(r"^v?\d+", value, re.IGNORECASE): the three numeric patterns of
\* _looks_like_version all match exactly when this one does
NumericPrefix(value) ==
    \/ Len(value) >= 1 /\ value[1] \in DigitChars
    \/ Len(value) >= 2 /\ value[1] \in {"v", "V"} /\ value[2] \in DigitChars

\* re.match(r"^(latest|stable|beta|alpha|dev|rc)$", value, re.IGNORECASE)
AliasPattern(value) ==
    Lower(BeforeDollar(value)) \in
        {<<"l","a","t","e","s","t">>, <<"s","t","a","b","l","e">>, <<"b","e","t","a">>,
         <<"a","l","p","h","a">>, <<"d","e","v">>, <<"r","c">>}

looks_like_scope(value, platform) ==
    IF platform = <<"u","s","e","r">> THEN Len(value) >= 2 /\ IsAlnum(value)
    ELSE IF platform = <<"o","r","g">> THEN Len(value) >= 2
    ELSE IF platform = <<"a","i","p","l","a","t","f","o","r","m">> THEN FALSE
    ELSE Len(value) <= 32 /\ IsAlnum(Remove(value, "-"))

looks_like_version(value) == NumericPrefix(value) \/ AliasPattern(value)

-----------------------------------------------------------------------------
(* parser.py: TRNParser                                                    *)

\* the six ways the mapping functions read a list of parts (parts[1] is the
\* platform; Python's parts[k] is parts[k + 1] here)
Read5(p, h) == Components(p[1], NONE, p[2], p[3], NONE, p[4], p[5], NONE, h)
ReadScope(p, h) == Components(p[1], p[2], p[3], p[4], NONE, p[5], p[6], NONE, h)
ReadTag(p, h) == Components(p[1], NONE, p[2], p[3], NONE, p[4], p[5], p[6], h)
ReadSubtype(p, h) == Components(p[1], NONE, p[2], p[3], p[4], p[5], p[6], NONE, h)
ReadScopeSubtype(p, h) == Components(p[1], p[2], p[3], p[4], p[5], p[6], p[7], NONE, h)
ReadScopeTag(p, h) == Components(p[1], p[2], p[3], p[4], NONE, p[5], p[6], p[7], h)
ReadSubtypeTag(p, h) == Components(p[1], NONE, p[2], p[3], p[4], p[5], p[6], p[7], h)
Read8(p, h) == Components(p[1], p[2], p[3], p[4], p[5], p[6], p[7], p[8], h)

map_recovery_components(parts, hash_value) ==
    IF Len(parts) = 5 THEN Returned(Read5(parts, hash_value))
    ELSE IF Len(parts) = 6 THEN
        IF looks_like_scope(parts[2], parts[1]) THEN Returned(ReadScope(parts, hash_value))
        ELSE IF looks_like_version(parts[6]) THEN Returned(ReadTag(parts, hash_value))
        ELSE Returned(ReadSubtype(parts, hash_value))
    ELSE IF Len(parts) = 7 THEN
        IF looks_like_scope(parts[2], parts[1])
        THEN Returned(ReadScopeSubtype(parts, hash_value))
        ELSE IF looks_like_version(parts[7])
        THEN Returned(ReadSubtypeTag(parts, hash_value))
        ELSE Raised("TRNFormatError", "ambiguous", NoComponents)
    ELSE IF Len(parts) = 8 THEN Returned(Read8(parts, hash_value))
    ELSE Raised("TRNFormatError", "too_many", NoComponents)

recovery_parts(parts, hash_value) ==
    IF Len(parts) < 6 THEN Raised("TRNFormatError", "components", NoComponents)
    ELSE IF parts[1] # <<"t","r","n">> THEN Raised("TRNFormatError", "prefix", NoComponents)
    ELSE map_recovery_components(Tail(parts), hash_value)

\* TRNParser._recovery_parse: the hash is what follows the last "@"
recovery_parse(trn_string) ==
    IF Contains(trn_string, "@")
    THEN recovery_parts(Split(SubSeq(trn_string, 1, LastIndex(trn_string, "@") - 1), ":"),
                        SubSeq(trn_string, LastIndex(trn_string, "@") + 1, Len(trn_string)))
    ELSE recovery_parts(Split(trn_string, ":"), NONE)

extract_components_from_match(match) == match.groups

parse_components(trn_string) ==
    IF ~StartsWith(trn_string, <<"t","r","n",":">>)
    THEN Raised("TRNFormatError", "prefix", NoComponents)
    ELSE IF TRN_REGEX(trn_string).matched
    THEN Returned(extract_components_from_match(TRN_REGEX(trn_string)))
    ELSE recovery_parse(trn_string)

\* the parts extract_base_trn joins: the fields before the version
base_parts(components) ==
    <<<<"t","r","n">>, components.platform>>
        \o (IF ~Falsy(components.scope) THEN <<components.scope>> ELSE <<>>)
        \o <<components.resource_type, components.type>>
        \o (IF ~Falsy(components.subtype) THEN <<components.subtype>> ELSE <<>>)
        \o <<components.instance_id>>

\* the parts _extract_base_trn_fallback keeps (parts[-2] is parts[Len - 1])
fallback_parts(parts) ==
    IF Len(parts) >= 6
    THEN IF Len(parts) >= 7 /\ ~looks_like_version(parts[Len(parts) - 1])
         THEN SubSeq(parts, 1, Len(parts) - 2)
         ELSE SubSeq(parts, 1, Len(parts) - 1)
    ELSE parts

\* TRNParser._extract_base_trn_fallback
extract_base_trn_fallback(trn_string) ==
    Join(fallback_parts(Split(IF Contains(trn_string, "@")
                              THEN Split(trn_string, "@")[1]
                              ELSE trn_string, ":")), ":")

\* extract_base_trn once parse_components has returned or raised
base_of(components, trn_string) ==
    IF components.error = "none" THEN Join(base_parts(components.value), ":")
    ELSE extract_base_trn_fallback(trn_string)

\* TRNParser.extract_base_trn
extract_base_trn(trn_string) == base_of(parse_components(trn_string), trn_string)

-----------------------------------------------------------------------------
(* validator.py: TRNValidator, the checks on a component dictionary        *)

check_reserved_words(value, component) ==
    IF Lower(value) \in RESERVED_WORDS THEN TRNReservedWordError(component)
    ELSE IF StartsWith(value, <<"_","_">>) THEN TRNReservedWordError(component)
    ELSE NoError

validate_platform(platform, strict) ==
    IF strict /\ platform \notin SUPPORTED_PLATFORMS
    THEN TRNValidationError("supported_platforms")
    ELSE check_reserved_words(platform, "platform")

validate_scope(scope, strict) == check_reserved_words(scope, "scope")

validate_resource_type(resource_type, strict) ==
    IF strict /\ resource_type \notin SUPPORTED_RESOURCE_TYPES
    THEN TRNValidationError("supported_resource_types")
    ELSE check_reserved_words(resource_type, "resource_type")

validate_type(type_value, strict) == check_reserved_words(type_value, "type")

validate_subtype(subtype, strict) ==
    IF /\ strict
       /\ subtype \notin SUPPORTED_TOOL_SUBTYPES
       /\ subtype \in {<<"a","s","y","n","c">>, <<"s","y","n","c">>,
                       <<"s","t","r","e","a","m","i","n","g">>, <<"b","a","t","c","h">>,
                       <<"r","e","a","l","t","i","m","e">>}
       /\ subtype \notin SUPPORTED_TOOL_SUBTYPES
    THEN TRNValidationError("supported_subtypes")
    ELSE check_reserved_words(subtype, "subtype")

\* "../", "./", "\\" and "/": a value holds one of them exactly when it holds
\* a slash or a backslash
validate_instance_id(instance_id, strict) ==
    IF Contains(instance_id, "/") \/ Contains(instance_id, "\\")
    THEN TRNCharacterError("instance_id")
    ELSE check_reserved_words(instance_id, "instance_id")

\* the three numeric patterns end in .*$ and "." matches no newline
VersionFormat(version) ==
    \/ NumericPrefix(version) /\ ~Contains(BeforeDollar(version), "\n")
    \/ AliasPattern(version)

validate_version(version, strict) ==
    IF strict /\ ~VersionFormat(version) THEN TRNValidationError("version_format")
    ELSE check_reserved_words(version, "version")

validate_tag(tag, strict) == check_reserved_words(tag, "tag")

validate_hash(hash_value, strict) ==
    IF strict /\ ~HASH_FORMAT_REGEX(hash_value) THEN TRNValidationError("hash_format")
    ELSE NoError

validate_required_components(components) ==
    FirstError(
        [i \in 1..5 |->
            IF Falsy(components[<<"platform", "resource_type", "type", "instance_id",
                                  "version">>[i]])
            THEN TRNComponentError(<<"platform", "resource_type", "type", "instance_id",
                                     "version">>[i])
            ELSE NoError])

MaxLengthOf(component_name) ==
    CASE component_name = "platform" -> PLATFORM_MAX_LENGTH
      [] component_name = "scope" -> SCOPE_MAX_LENGTH
      [] component_name = "resource_type" -> RESOURCE_TYPE_MAX_LENGTH
      [] component_name = "type" -> TYPE_MAX_LENGTH
      [] component_name = "subtype" -> SUBTYPE_MAX_LENGTH
      [] component_name = "instance_id" -> INSTANCE_ID_MAX_LENGTH
      [] component_name = "version" -> VERSION_MAX_LENGTH
      [] component_name = "tag" -> TAG_MAX_LENGTH
      [] component_name = "hash" -> HASH_MAX_LENGTH

ValidatorOf(component_name, value, strict) ==
    CASE component_name = "platform" -> validate_platform(value, strict)
      [] component_name = "scope" -> validate_scope(value, strict)
      [] component_name = "resource_type" -> validate_resource_type(value, strict)
      [] component_name = "type" -> validate_type(value, strict)
      [] component_name = "subtype" -> validate_subtype(value, strict)
      [] component_name = "instance_id" -> validate_instance_id(value, strict)
      [] component_name = "version" -> validate_version(value, strict)
      [] component_name = "tag" -> validate_tag(value, strict)
      [] component_name = "hash" -> validate_hash(value, strict)

validate_component(component_name, value, strict) ==
    IF value = NONE THEN NoError
    ELSE IF Len(value) > MaxLengthOf(component_name) THEN TRNLengthError(component_name)
    ELSE ValidatorOf(component_name, value, strict)

validate_individual_components(components, strict) ==
    FirstError([i \in 1..Len(ComponentNames) |->
                   validate_component(ComponentNames[i], components[ComponentNames[i]], strict)])

validate_business_rules(components) ==
    IF /\ components.platform = <<"u","s","e","r">>
       /\ ~Falsy(components.scope)
       /\ Len(components.scope) < 2
    THEN TRNValidationError("user_scope_length")
    ELSE IF components.platform = <<"o","r","g">> /\ Falsy(components.scope)
    THEN TRNValidationError("org_scope_required")
    ELSE IF components.platform = <<"a","i","p","l","a","t","f","o","r","m">>
            /\ ~Falsy(components.scope)
    THEN TRNValidationError("system_no_scope")
    ELSE NoError

validate_components_dict(components, strict) ==
    FirstError(<<validate_required_components(components),
                 validate_individual_components(components, strict),
                 IF strict THEN validate_business_rules(components) ELSE NoError>>)

validate_components(components, strict) == validate_components_dict(components, strict)

validate_basic_format(trn_string) ==
    IF trn_string = <<>> THEN TRNFormatError("empty")
    ELSE IF Len(trn_string) < TRN_MIN_LENGTH THEN TRNLengthError("too_short")
    ELSE IF Len(trn_string) > TRN_MAX_LENGTH THEN TRNLengthError("too_long")
    ELSE IF ~StartsWith(trn_string, <<"t","r","n",":">>) THEN TRNFormatError("prefix")
    ELSE IF ~TRN_REGEX(trn_string).matched THEN TRNFormatError("pattern")
    ELSE NoError

\* TRNValidator._parse_components: the groups of the match
validator_parse_components(trn_string) ==
    IF ~TRN_REGEX(trn_string).matched THEN Raised("TRNFormatError", "pattern", NoComponents)
    ELSE Returned(TRN_REGEX(trn_string).groups)

\* the try block of TRNValidator.validate once the two calls have returned or
\* raised
validate_parsed(basic, components, strict) ==
    IF basic.error # "none" THEN basic
    ELSE IF components.error # "none" THEN Error(components.error, components.info)
    ELSE validate_components_dict(components.value, strict)

\* the body of the try block of TRNValidator.validate
ValidateString(trn_string, strict) ==
    validate_parsed(validate_basic_format(trn_string), validator_parse_components(trn_string),
                    strict)

-----------------------------------------------------------------------------
(* parser.py: TRNParser.normalize_string                                   *)

normalize_string(trn_string) ==
    IF trn_string = <<>> THEN trn_string
    ELSE LET normalized == Strip(Lower(trn_string))
             parts == Split(normalized, "@")
             main_part == CollapseColons(parts[1])
             hash_part == IF Len(parts) > 1 THEN parts[2] ELSE NONE
         IN  IF hash_part # NONE /\ hash_part # <<>>
             THEN main_part \o <<"@">> \o hash_part
             ELSE main_part

-----------------------------------------------------------------------------
(* core.py: TRNComponents and TRN                                          *)

\* TRNComponents.__post_init__; the fields of the dataclass are declared with
\* the required ones first, which is the order __dict__ is walked in
post_init(c) ==
    FirstError(
        <<IF Falsy(c.platform) THEN TRNComponentError("platform") ELSE NoError,
          IF Falsy(c.resource_type) THEN TRNComponentError("resource_type") ELSE NoError,
          IF Falsy(c.type) THEN TRNComponentError("type") ELSE NoError,
          IF Falsy(c.instance_id) THEN TRNComponentError("instance_id") ELSE NoError,
          IF Falsy(c.version) THEN TRNComponentError("version") ELSE NoError,
          IF c.platform \notin SUPPORTED_PLATFORMS
          THEN TRNValidationError("supported_platforms") ELSE NoError,
          IF c.resource_type \notin SUPPORTED_RESOURCE_TYPES
          THEN TRNValidationError("supported_resource_types") ELSE NoError>>
        \o [i \in 1..Len(ComponentNames) |->
               IF ~Falsy(c[ComponentNames[i]]) /\ Lower(c[ComponentNames[i]]) \in RESERVED_WORDS
               THEN TRNValidationError("reserved_words") ELSE NoError])

\* the object built, or the exception e raised on the way
construct(e, c) ==
    IF e.error # "none" THEN Raised(e.error, e.info, NoComponents) ELSE Returned(c)

\* TRN.__init__: the Identifier built, or the exception raised on the way
TRN(c, validate) ==
    construct(FirstError(<<post_init(c),
                           IF validate THEN validate_components(c, TRUE) ELSE NoError>>), c)

\* TRN._build_string
build_string(c) ==
    LET parts == <<<<"t","r","n">>, c.platform>>
                 \o (IF ~Falsy(c.scope) THEN <<c.scope>> ELSE <<>>)
                 \o <<c.resource_type, c.type>>
                 \o (IF ~Falsy(c.subtype) THEN <<c.subtype>> ELSE <<>>)
                 \o <<c.instance_id, c.version>>
                 \o (IF ~Falsy(c.tag) THEN <<c.tag>> ELSE <<>>)
    IN  Join(parts, ":") \o (IF ~Falsy(c.hash) THEN <<"@">> \o c.hash ELSE <<>>)

\* TRN(**components) once the components are parsed, or the exception of the
\* parse
TRNOf(components, validate) ==
    IF components.error # "none" THEN components ELSE TRN(components.value, validate)

\* TRNParser.parse(trn_string, validate, normalize=None): normalize_on_parse is
\* True in DEFAULT_CONFIG
parse(trn_string, validate) ==
    IF trn_string = <<>> THEN Raised("TRNFormatError", "empty", NoComponents)
    ELSE TRNOf(parse_components(normalize_string(trn_string)), validate)

-----------------------------------------------------------------------------
(* url_converter.py: TRNURLConverter                                       *)

\* URL_ENCODING_MAP, and the escapes urllib.parse.quote writes for the other
\* characters it does not leave alone
PercentCodes ==
    << <<":", <<"%","3","A">> >>, <<"/", <<"%","2","F">> >>, <<".", <<"%","2","E">> >>,
       <<"@", <<"%","4","0">> >>, <<"#", <<"%","2","3">> >>, <<"?", <<"%","3","F">> >>,
       <<"&", <<"%","2","6">> >>, <<"=", <<"%","3","D">> >>, <<"+", <<"%","2","B">> >>,
       <<" ", <<"%","2","0">> >>, <<"%", <<"%","2","5">> >>, <<"\n", <<"%","0","A">> >> >>

URL_ENCODING_MAP == SubSeq(PercentCodes, 1, 10)

CodeOf(table, c) == table[CHOOSE i \in 1..Len(table) : table[i][1] = c][2]

HasCode(table, c) == \E i \in 1..Len(table) : table[i][1] = c

\* the replacements of URL_ENCODING_MAP put no character of the map into the
\* text, so applying them one after the other rewrites each character once
RECURSIVE encode_component(_)
encode_component(component) ==
    IF Falsy(component) THEN component
    ELSE IF HasCode(URL_ENCODING_MAP, Head(component))
    THEN CodeOf(URL_ENCODING_MAP, Head(component))
         \o (IF Len(component) = 1 THEN <<>> ELSE encode_component(Tail(component)))
    ELSE <<Head(component)>>
         \o (IF Len(component) = 1 THEN <<>> ELSE encode_component(Tail(component)))

QuoteSafe == AlnumChars \cup {"_", ".", "-", "~", "/"}

\* urllib.parse.quote(s), safe = "/"
RECURSIVE Quote(_)
Quote(s) ==
    IF s = <<>> THEN <<>>
    ELSE IF Head(s) \notin QuoteSafe /\ HasCode(PercentCodes, Head(s))
    THEN CodeOf(PercentCodes, Head(s)) \o Quote(Tail(s))
    ELSE <<Head(s)>> \o Quote(Tail(s))

\* the character a %XX escape stands for; hex digits are read in either case
Escaped(h1, h2) ==
    LET code == <<"%", h1, h2>>
        hits == {i \in 1..Len(PercentCodes) : Lower(PercentCodes[i][2]) = Lower(code)}
    IN  IF hits = {} THEN code ELSE <<PercentCodes[CHOOSE i \in hits : TRUE][1]>>

\* urllib.parse.unquote(s)
RECURSIVE Unquote(_)
Unquote(s) ==
    IF s = <<>> THEN <<>>
    ELSE IF Head(s) = "%" /\ Len(s) >= 3
    THEN Escaped(s[2], s[3]) \o Unquote(SubSeq(s, 4, Len(s)))
    ELSE <<Head(s)>> \o Unquote(Tail(s))

\* a decoder that leaves the percent escapes in place
decode_component_escaped(component) == component

\* TRNURLConverter._decode_component
decode_component(component) == IF Falsy(component) THEN component ELSE Unquote(component)

\* the first position at or after `from` holding a character of `chars`, or
\* Len(s) + 1
RECURSIVE FindAny(_, _, _)
FindAny(s, chars, from) ==
    IF from > Len(s) THEN Len(s) + 1
    ELSE IF s[from] \in chars THEN from
    ELSE FindAny(s, chars, from + 1)

\* urllib.parse.urlparse(url) of a URL scheme://netloc/path?query#fragment
urlparse(url) ==
    LET colon == FindAny(url, {":"}, 1)
        scheme == Lower(SubSeq(url, 1, colon - 1))
        rest == SubSeq(url, colon + 1, Len(url))
        has_netloc == StartsWith(rest, <<"/","/">>)
        netloc_end == IF has_netloc THEN FindAny(rest, {"/", "?", "#"}, 3) ELSE 1
        tail == SubSeq(rest, netloc_end, Len(rest))
        frag == FindAny(tail, {"#"}, 1)
        no_fragment == SubSeq(tail, 1, frag - 1)
        q == FindAny(no_fragment, {"?"}, 1)
    IN  [scheme |-> scheme,
         netloc |-> IF has_netloc THEN SubSeq(rest, 3, netloc_end - 1) ELSE <<>>,
         path |-> SubSeq(no_fragment, 1, q - 1),
         query |-> SubSeq(no_fragment, q + 1, Len(no_fragment))]

PlusToSpace(s) == [i \in 1..Len(s) |-> IF s[i] = "+" THEN " " ELSE s[i]]

\* urllib.parse.parse_qs(query).get("hash", [None])[0]: fields without "=" or
\* with an empty value are dropped
QueryHash(query) ==
    LET pairs == Split(query, "&")
        name(i) == Unquote(PlusToSpace(SubSeq(pairs[i], 1, FindAny(pairs[i], {"="}, 1) - 1)))
        value(i) == Unquote(PlusToSpace(SubSeq(pairs[i], FindAny(pairs[i], {"="}, 1) + 1,
                                               Len(pairs[i]))))
        hits == {i \in 1..Len(pairs) :
                    /\ Contains(pairs[i], "=")
                    /\ value(i) # <<>>
                    /\ name(i) = <<"h","a","s","h">>}
    IN  IF hits = {} THEN NONE ELSE value(CHOOSE i \in hits : \A j \in hits : i <= j)

\* [f(part) for part in parts if part]
RECURSIVE DecodeNonEmpty(_)
DecodeNonEmpty(parts) ==
    IF parts = <<>> THEN <<>>
    ELSE IF Head(parts) = <<>> THEN DecodeNonEmpty(Tail(parts))
    ELSE <<decode_component(Head(parts))>> \o DecodeNonEmpty(Tail(parts))

\* TRNURLConverter._to_trn_url
to_trn_url(trn) ==
    <<"t","r","n",":","/","/">> \o trn.platform
        \o (IF ~Falsy(trn.scope) THEN <<"/">> \o encode_component(trn.scope) ELSE <<>>)
        \o <<"/">> \o trn.resource_type \o <<"/">> \o trn.type
        \o (IF ~Falsy(trn.subtype) THEN <<"/">> \o encode_component(trn.subtype) ELSE <<>>)
        \o <<"/">> \o encode_component(trn.instance_id)
        \o <<"/">> \o encode_component(trn.version)
        \o (IF ~Falsy(trn.tag) THEN <<"/">> \o encode_component(trn.tag) ELSE <<>>)
        \o (IF ~Falsy(trn.hash) THEN <<"?","h","a","s","h","=">> \o Quote(trn.hash) ELSE <<>>)

\* TRNURLConverter._map_url_components
map_url_components(parts, hash_value) ==
    IF Len(parts) = 5 THEN Returned(Read5(parts, hash_value))
    ELSE IF Len(parts) = 6 THEN
        IF looks_like_scope(parts[2], parts[1]) THEN Returned(ReadScope(parts, hash_value))
        ELSE IF looks_like_version(parts[5]) THEN Returned(ReadTag(parts, hash_value))
        ELSE Returned(ReadSubtype(parts, hash_value))
    ELSE IF Len(parts) = 7 THEN
        IF looks_like_scope(parts[2], parts[1])
        THEN IF looks_like_version(parts[6])
             THEN Returned(ReadScopeTag(parts, hash_value))
             ELSE Returned(ReadScopeSubtype(parts, hash_value))
        ELSE Returned(ReadSubtypeTag(parts, hash_value))
    ELSE IF Len(parts) = 8 THEN Returned(Read8(parts, hash_value))
    ELSE Raised("TRNFormatError", "too_many", NoComponents)

\* _from_trn_url once the URL is taken apart
from_trn_path(scheme, parts, hash_value, validate) ==
    IF scheme # <<"t","r","n">> THEN Raised("TRNFormatError", "scheme", NoComponents)
    ELSE IF Len(parts) < 5 THEN Raised("TRNFormatError", "components", NoComponents)
    ELSE TRNOf(map_url_components(parts, hash_value), validate)

\* parsed.netloc + parsed.path without the "/" it starts with and the "/" it
\* ends with
TrnUrlPath(joined) ==
    SubSeq(joined,
           IF StartsWith(joined, <<"/">>) THEN 2 ELSE 1,
           IF Len(joined) > 1 /\ joined[Len(joined)] = "/" THEN Len(joined) - 1
           ELSE Len(joined))

from_trn_parsed(parsed, validate) ==
    from_trn_path(parsed.scheme,
                  DecodeNonEmpty(Split(TrnUrlPath(parsed.netloc \o parsed.path), "/")),
                  IF parsed.query # <<>> THEN QueryHash(parsed.query) ELSE NONE,
                  validate)

\* TRNURLConverter._from_trn_url
from_trn_url(url, validate) == from_trn_parsed(urlparse(url), validate)

\* the readings of _map_http_url_components, which has no resource_type part
Http4(p, h) == Components(p[1], NONE, NONE, p[2], NONE, p[3], p[4], NONE, h)
HttpScope(p, h) == Components(p[1], p[2], NONE, p[3], NONE, p[4], p[5], NONE, h)
HttpTag(p, h) == Components(p[1], NONE, NONE, p[2], NONE, p[3], p[4], p[5], h)
HttpSubtype(p, h) == Components(p[1], NONE, NONE, p[2], p[3], p[4], p[5], NONE, h)
HttpScopeSubtype(p, h) == Components(p[1], p[2], NONE, p[3], p[4], p[5], p[6], NONE, h)
HttpSubtypeTag(p, h) == Components(p[1], NONE, NONE, p[2], p[3], p[4], p[5], p[6], h)
Http7(p, h) == Components(p[1], p[2], NONE, p[3], p[4], p[5], p[6], p[7], h)

\* TRNURLConverter._map_http_url_components
map_http_url_components(parts, hash_value) ==
    IF Len(parts) = 4 THEN Returned(Http4(parts, hash_value))
    ELSE IF Len(parts) = 5 THEN
        IF looks_like_scope(parts[2], parts[1]) THEN Returned(HttpScope(parts, hash_value))
        ELSE IF looks_like_version(parts[4]) THEN Returned(HttpTag(parts, hash_value))
        ELSE Returned(HttpSubtype(parts, hash_value))
    ELSE IF Len(parts) = 6 THEN
        IF looks_like_scope(parts[2], parts[1])
        THEN Returned(HttpScopeSubtype(parts, hash_value))
        ELSE Returned(HttpSubtypeTag(parts, hash_value))
    ELSE IF Len(parts) = 7 THEN Returned(Http7(parts, hash_value))
    ELSE Raised("TRNFormatError", "too_many", NoComponents)

\* "/".join(encode(part) for part in path_parts)
EncodeAll(parts) == [i \in 1..Len(parts) |-> encode_component(parts[i])]

\* TRNURLConverter._to_http_url
to_http_url(trn, scheme) ==
    LET path_parts == <<<<"/","t","o","o","l","s">>, trn.platform>>
                      \o (IF ~Falsy(trn.scope) THEN <<trn.scope>> ELSE <<>>)
                      \o <<trn.type>>
                      \o (IF ~Falsy(trn.subtype) THEN <<trn.subtype>> ELSE <<>>)
                      \o <<trn.instance_id, trn.version>>
                      \o (IF ~Falsy(trn.tag) THEN <<trn.tag>> ELSE <<>>)
    IN  scheme \o <<":","/","/","y","o","u","r","-","p","l","a","t","f","o","r","m",".","c","o","m">>
            \o Join(EncodeAll(path_parts), "/")
            \o (IF ~Falsy(trn.hash) THEN <<"?","h","a","s","h","=">> \o Quote(trn.hash)
                ELSE <<>>)

\* [part for part in parts if part]
RECURSIVE NonEmpty(_)
NonEmpty(parts) ==
    IF parts = <<>> THEN <<>>
    ELSE IF Head(parts) = <<>> THEN NonEmpty(Tail(parts))
    ELSE <<Head(parts)>> \o NonEmpty(Tail(parts))

\* components["resource_type"] = "tool"
with_tool(components) ==
    IF components.error # "none" THEN components
    ELSE Returned([components.value EXCEPT !.resource_type = <<"t","o","o","l">>])

\* _from_http_url once the URL is taken apart
from_http_path(path_parts, hash_value, validate) ==
    IF path_parts = <<>> \/ path_parts[1] # <<"t","o","o","l","s">>
    THEN Raised("TRNFormatError", "tools", NoComponents)
    ELSE IF Len(path_parts) - 1 < 4 THEN Raised("TRNFormatError", "components", NoComponents)
    ELSE TRNOf(with_tool(map_http_url_components(
                   [i \in 1..(Len(path_parts) - 1) |-> decode_component(path_parts[i + 1])],
                   hash_value)),
               validate)

from_http_parsed(parsed, validate) ==
    from_http_path(NonEmpty(Split(parsed.path, "/")),
                   IF parsed.query # <<>> THEN QueryHash(parsed.query) ELSE NONE,
                   validate)

\* TRNURLConverter._from_http_url
from_http_url(url, validate) == from_http_parsed(urlparse(url), validate)

\* TRNURLConverter.to_url
to_url(trn, scheme) ==
    IF scheme = <<"t","r","n">> THEN Returned(to_trn_url(trn))
    ELSE IF scheme \in {<<"h","t","t","p">>, <<"h","t","t","p","s">>}
    THEN Returned(to_http_url(trn, scheme))
    ELSE Raised("ValueError", "scheme", <<>>)

\* TRNURLConverter.from_url
from_url(url, validate) ==
    IF StartsWith(url, <<"t","r","n",":","/","/">>) THEN from_trn_url(url, validate)
    ELSE IF \/ StartsWith(url, <<"h","t","t","p",":","/","/">>)
            \/ StartsWith(url, <<"h","t","t","p","s",":","/","/">>)
    THEN from_http_url(url, validate)
    ELSE Raised("TRNFormatError", "unsupported", NoComponents)

-----------------------------------------------------------------------------
(* validator.py: the validation-result cache and TRNValidator.validate     *)

\* f"{trn_string}:{strict}"
cache_key(trn_string, strict) ==
    trn_string \o <<":">>
        \o (IF strict THEN <<"T","r","u","e">> ELSE <<"F","a","l","s","e">>)

\* key in cls._validation_cache
InCache(cache, key) == \E i \in 1..Len(cache) : cache[i].key = key

\* cls._validation_cache[key]
CacheGet(cache, key) == cache[CHOOSE i \in 1..Len(cache) : cache[i].key = key].result

\* cls._validation_cache[key] = result: a new key goes last, a key already
\* held keeps its place
CachePut(cache, key, result) ==
    IF InCache(cache, key)
    THEN [i \in 1..Len(cache) |->
             IF cache[i].key = key THEN [key |-> key, result |-> result] ELSE cache[i]]
    ELSE Append(cache, [key |-> key, result |-> result])

\* an eviction that deletes the last n keys, the newest ones
EvictedNewest(cache, n) == SubSeq(cache, 1, Len(cache) - (IF n < Len(cache) THEN n ELSE Len(cache)))

\* the cache without its first n keys: list(keys())[:n] deleted
Evicted(cache, n) == SubSeq(cache, (IF n < Len(cache) THEN n ELSE Len(cache)) + 1, Len(cache))

\* TRNValidator._cache_result on the state st = [cache, size, max, enabled]
cache_result(st, key, result) ==
    IF ~st.enabled THEN st
    ELSE IF st.size >= st.max
    THEN [st EXCEPT !.cache = CachePut(Evicted(st.cache, st.size \div 2), key, result),
                    !.size = Len(Evicted(st.cache, st.size \div 2)) + 1]
    ELSE [st EXCEPT !.cache = CachePut(st.cache, key, result), !.size = st.size + 1]

\* the strings the calls are made with: one valid, one that only strict
\* validation rejects, one that both modes reject, and one that breaks two
\* rules of strict validation (platform and resource_type)
TrnInputs ==
    {<<"t","r","n",":","u","s","e","r",":","a","l","i","c","e",":","t","o","o","l",":","o","p","e","n","a","p","i",":","g","i","t","h","u","b","-","a","p","i",":","v","1",".","0">>,
     <<"t","r","n",":","i","n","v","a","l","i","d","-","p","l","a","t","f","o","r","m",":","t","o","o","l",":","o","p","e","n","a","p","i",":","t","e","s","t",":","v","1",".","0">>,
     <<"i","n","v","a","l","i","d","-","t","r","n">>,
     <<"t","r","n",":","o","t","h","e","r",":","a","l","i","c","e",":","w","i","d","g","e","t",":","o","p","e","n","a","p","i",":","g","h",":","v","1",".","0">>}

\* ValidateString on the strings above, evaluated once for all the calls
ValidateStringTable ==
    [s \in TrnInputs |-> [strict \in BOOLEAN |-> ValidateString(s, strict)]]

TryValidate(trn_string, strict) ==
    IF trn_string \in TrnInputs THEN ValidateStringTable[trn_string][strict]
    ELSE ValidateString(trn_string, strict)

\* validate under the key of the call, e being what the try block comes to
validate_with(st, key, e) ==
    IF st.enabled /\ InCache(st.cache, key)
    THEN [result |-> Returned(CacheGet(st.cache, key)), st |-> st]
    ELSE IF e.error = "none"
    THEN [result |-> Returned(TRUE), st |-> cache_result(st, key, TRUE)]
    ELSE [result |-> Raised(e.error, e.info, FALSE), st |-> cache_result(st, key, FALSE)]

\* TRNValidator.validate: [result, st], what the caller sees and the state left
validate(st, trn_string, strict) ==
    validate_with(st, cache_key(trn_string, strict), TryValidate(trn_string, strict))

\* the list get_validation_errors returns after the call r of validate
errors_of(r) ==
    [result |-> IF r.result.error = "none" THEN <<>>
                ELSE <<Error(r.result.error, r.result.info)>>,
     st |-> r.st]

\* TRNValidator.get_validation_errors: one message for the exception caught
get_validation_errors(st, trn_string, strict) == errors_of(validate(st, trn_string, strict))

-----------------------------------------------------------------------------
(* utils.py                                                                *)

returned(r) == [result |-> r.result.error = "none", st |-> r.st]

\* is_valid_trn: True unless validate raises
is_valid_trn(st, trn_string, strict) == returned(validate(st, trn_string, strict))

\* a loop that keeps the message of a rejected string and drops the string
BatchStepDroppingInvalid(acc, trn, r) ==
    IF r.result.error = "none"
    THEN [acc EXCEPT !.valid = Append(@, trn), !.st = r.st]
    ELSE [acc EXCEPT !.errors = Append(@, Error(r.result.error, r.result.info)),
                     !.st = r.st]

\* one round of the loop: acc holds the lists built so far and the state
\* the calls of validate have left
BatchStep(acc, trn, r) ==
    IF r.result.error = "none"
    THEN [acc EXCEPT !.valid = Append(@, trn), !.st = r.st]
    ELSE [acc EXCEPT !.invalid = Append(@, trn),
                     !.errors = Append(@, Error(r.result.error, r.result.info)),
                     !.st = r.st]

\* batch_validate_trns: the loop over trn_list
RECURSIVE BatchLoop(_, _, _)
BatchLoop(acc, trn_list, strict) ==
    IF trn_list = <<>> THEN acc
    ELSE BatchLoop(BatchStep(acc, Head(trn_list), validate(acc.st, Head(trn_list), strict)),
                   Tail(trn_list), strict)

\* success_rate is the fraction valid_count / total_count, kept as the pair of
\* its numerator and denominator, and <<0, 1>> for the 0.0 of an empty list
BatchReport(trn_list, acc) ==
    [result |-> [total_count |-> Len(trn_list),
                 valid_count |-> Len(acc.valid),
                 invalid_count |-> Len(acc.invalid),
                 valid_trns |-> acc.valid,
                 invalid_trns |-> acc.invalid,
                 errors |-> acc.errors,
                 success_rate |-> IF trn_list # <<>>
                                  THEN <<Len(acc.valid), Len(trn_list)>>
                                  ELSE <<0, 1>>],
     st |-> acc.st]

batch_validate_trns(st, trn_list, strict) ==
    BatchReport(trn_list,
                BatchLoop([valid |-> <<>>, invalid |-> <<>>, errors |-> <<>>, st |-> st],
                          trn_list, strict))

-----------------------------------------------------------------------------
(* The validator as a state machine: any sequence of calls of its entry    *)
(* points on the class-level cache                                         *)

\* DEFAULT_CONFIG["max_cache_size"], the capacity the class starts with
MAX_CACHE_SIZE == 1000

\* the capacities the class attribute _max_cache_size is set to, small enough
\* for the eviction to happen within a few calls
MaxCapacity == 3

\* the longest list batch_validate_trns is called with
MaxBatch == 2

\* the lists batch_validate_trns is called with
RECURSIVE ListsUpTo(_, _)
ListsUpTo(S, n) ==
    IF n = 0 THEN {<<>>}
    ELSE ListsUpTo(S, n - 1)
         \cup {Append(l, x) : l \in {m \in ListsUpTo(S, n - 1) : Len(m) = n - 1}, x \in S}

\* the class-level state the entry points work on
State ==
    [cache |-> validation_cache, size |-> cache_size, max |-> max_cache_size,
     enabled |-> cache_validation_results]

\* the same process with cache_validation_results switched off
StateWithoutCache == [cache |-> <<>>, size |-> 0, max |-> max_cache_size, enabled |-> FALSE]

\* one call of an entry point on st: [result, st]
Call(op, st, arg, args, strict) ==
    CASE op = "validate" -> validate(st, arg, strict)
      [] op = "is_valid_trn" -> is_valid_trn(st, arg, strict)
      [] op = "get_validation_errors" -> get_validation_errors(st, arg, strict)
      [] op = "batch_validate_trns" -> batch_validate_trns(st, args, strict)

NoCall == [op |-> "none", arg |-> <<>>, args |-> <<>>, strict |-> TRUE, obs |-> Returned(TRUE)]

Init ==
    /\ validation_cache = <<>>
    /\ cache_size = 0
    /\ max_cache_size \in 1..MaxCapacity
    /\ cache_validation_results \in BOOLEAN
    /\ last = NoCall
    /\ input = <<>>
    /\ done = {}
    /\ out = <<>>

\* the call op has come to r = [result, st]: the state it leaves, and in last
\* the call and what its caller observes
Do(op, arg, args, strict, r) ==
    /\ validation_cache' = r.st.cache
    /\ cache_size' = r.st.size
    /\ last' = [op |-> op, arg |-> arg, args |-> args, strict |-> strict, obs |-> r.result]
    /\ UNCHANGED <<max_cache_size, cache_validation_results, input, done, out>>

Validate ==
    \E s \in TrnInputs, strict \in BOOLEAN :
        Do("validate", s, <<>>, strict, validate(State, s, strict))

IsValidTrn ==
    \E s \in TrnInputs, strict \in BOOLEAN :
        Do("is_valid_trn", s, <<>>, strict, is_valid_trn(State, s, strict))

GetValidationErrors ==
    \E s \in TrnInputs, strict \in BOOLEAN :
        Do("get_validation_errors", s, <<>>, strict, get_validation_errors(State, s, strict))

BatchValidateTrns ==
    \E l \in ListsUpTo(TrnInputs, MaxBatch), strict \in BOOLEAN :
        Do("batch_validate_trns", <<>>, l, strict, batch_validate_trns(State, l, strict))

\* TRNValidator.clear_cache; last keeps the calls that return an observation
ClearCache ==
    /\ validation_cache' = <<>>
    /\ cache_size' = 0
    /\ last' = NoCall
    /\ UNCHANGED <<max_cache_size, cache_validation_results, input, done, out>>

Next == Validate \/ IsValidTrn \/ GetValidationErrors \/ BatchValidateTrns \/ ClearCache

Spec == Init /\ [][Next]_vars

-----------------------------------------------------------------------------
(* Component sets: an Identifier is built, written as a string and as a    *)
(* trn:// URL, and read back                                               *)

PlatformValues ==
    {<<"u","s","e","r">>,
     <<"o","r","g">>,
     <<"a","i","p","l","a","t","f","o","r","m">>}

ScopeValues ==
    {NONE,
     <<"a","l","i","c","e">>,
     <<"m","y","-","t","e","a","m">>}

ResourceTypeValues ==
    {<<"t","o","o","l">>,
     <<"m","o","d","e","l">>}

TypeValues ==
    {<<"o","p","e","n","a","p","i">>,
     <<"p","y","t","h","o","n">>}

SubtypeValues ==
    {NONE,
     <<"a","s","y","n","c">>}

InstanceIdValues ==
    {<<"g","i","t","h","u","b","-","a","p","i">>,
     <<"v","2","-","a","p","i">>}

VersionValues ==
    {<<"v","1",".","0">>,
     <<"l","a","t","e","s","t">>}

TagValues ==
    {NONE,
     <<"b","e","t","a">>}

HashValues ==
    {NONE,
     <<"s","h","a","2","5","6",":","a","b","c","1","2","3">>}

CandidateComponentSets ==
    {Components(p, sc, rt, ty, su, id, ve, tg, ha) :
        p \in PlatformValues, sc \in ScopeValues, rt \in ResourceTypeValues,
        ty \in TypeValues, su \in SubtypeValues, id \in InstanceIdValues,
        ve \in VersionValues, tg \in TagValues, ha \in HashValues}

\* the invariants of a component set: every field within its character class
\* and length, the string within 10..256, and the strict constructor accepts it
\* (required fields, vocabularies, reserved words, version and hash format,
\* business rules)
ValidComponentSet(c) ==
    /\ GroupsMatch(c)
    /\ TRN(c, TRUE).error = "none"
    /\ Len(build_string(c)) >= TRN_MIN_LENGTH
    /\ Len(build_string(c)) <= TRN_MAX_LENGTH

ValidComponentSets == {c \in CandidateComponentSets : ValidComponentSet(c)}

NotCalled == Raised("not_called", "", NoComponents)

NoOutputs ==
    [str |-> <<>>, parsed |-> NotCalled, validated |-> Raised("not_called", "", FALSE),
     url |-> <<>>, from_url |-> NotCalled, scheme |-> <<>>, http_url |-> <<>>,
     from_http |-> NotCalled, base |-> <<>>, base_of_object |-> <<>>]

InitComponents ==
    /\ validation_cache = <<>>
    /\ cache_size = 0
    /\ max_cache_size = MAX_CACHE_SIZE
    /\ cache_validation_results = TRUE
    /\ last = NoCall
    /\ input \in ValidComponentSets
    /\ done = {}
    /\ out = NoOutputs

\* str(TRN(**c))
BuildString ==
    /\ "str" \notin done
    /\ out' = [out EXCEPT !.str = build_string(input)]
    /\ done' = done \cup {"str"}
    /\ UNCHANGED <<validation_cache, cache_size, max_cache_size, cache_validation_results,
                   last, input>>

\* TRN.parse(str(c))
ParseBuilt ==
    /\ "str" \in done
    /\ "parse" \notin done
    /\ out' = [out EXCEPT !.parsed = parse(out.str, TRUE)]
    /\ done' = done \cup {"parse"}
    /\ UNCHANGED <<validation_cache, cache_size, max_cache_size, cache_validation_results,
                   last, input>>

\* TRNValidator.validate(str(c), strict=True)
ValidateBuilt ==
    /\ "str" \in done
    /\ "validate" \notin done
    /\ \E r \in {validate(State, out.str, TRUE)} :
        /\ validation_cache' = r.st.cache
        /\ cache_size' = r.st.size
        /\ last' = [op |-> "validate", arg |-> out.str, args |-> <<>>, strict |-> TRUE,
                    obs |-> r.result]
        /\ out' = [out EXCEPT !.validated = r.result]
    /\ done' = done \cup {"validate"}
    /\ UNCHANGED <<max_cache_size, cache_validation_results, input>>

\* TRNURLConverter.to_url(trn, "trn")
ToUrl ==
    /\ "url" \notin done
    /\ out' = [out EXCEPT !.url = to_url(input, <<"t","r","n">>).value]
    /\ done' = done \cup {"url"}
    /\ UNCHANGED <<validation_cache, cache_size, max_cache_size, cache_validation_results,
                   last, input>>

\* TRNURLConverter.from_url(url)
FromUrl ==
    /\ "url" \in done
    /\ "from_url" \notin done
    /\ out' = [out EXCEPT !.from_url = from_url(out.url, TRUE)]
    /\ done' = done \cup {"from_url"}
    /\ UNCHANGED <<validation_cache, cache_size, max_cache_size, cache_validation_results,
                   last, input>>

NextComponents == BuildString \/ ParseBuilt \/ ValidateBuilt \/ ToUrl \/ FromUrl

SpecComponents == InitComponents /\ [][NextComponents]_vars

-----------------------------------------------------------------------------
(* Strings: a string is parsed, the Identifier parsed is written back, and *)
(* the string is validated                                                 *)

\* the canonical strings of the valid component sets
CanonicalStrings == {build_string(c) : c \in ValidComponentSets}

\* a canonical string read with its line end, as a line of a file is
LineStrings == {s \o <<"\n">> : s \in CanonicalStrings}

\* trn:platform[:scope]:resource_type:type:instance_id, and nothing after
WithoutVersion(c) ==
    Join(<<<<"t","r","n">>, c.platform>>
         \o (IF ~Falsy(c.scope) THEN <<c.scope>> ELSE <<>>)
         \o <<c.resource_type, c.type, c.instance_id>>, ":")

VersionlessStrings == {WithoutVersion(c) : c \in ValidComponentSets}

StringInputs == CanonicalStrings \cup LineStrings \cup VersionlessStrings \cup TrnInputs

InitStrings ==
    /\ validation_cache = <<>>
    /\ cache_size = 0
    /\ max_cache_size = MAX_CACHE_SIZE
    /\ cache_validation_results = TRUE
    /\ last = NoCall
    /\ input \in StringInputs
    /\ done = {}
    /\ out = NoOutputs

\* TRN.parse(S)
ParseInput ==
    /\ "parse" \notin done
    /\ out' = [out EXCEPT !.parsed = parse(input, TRUE)]
    /\ done' = done \cup {"parse"}
    /\ UNCHANGED <<validation_cache, cache_size, max_cache_size, cache_validation_results,
                   last, input>>

\* str(TRN.parse(S))
StrOfParsed ==
    /\ "parse" \in done
    /\ out.parsed.error = "none"
    /\ "str" \notin done
    /\ out' = [out EXCEPT !.str = build_string(out.parsed.value)]
    /\ done' = done \cup {"str"}
    /\ UNCHANGED <<validation_cache, cache_size, max_cache_size, cache_validation_results,
                   last, input>>

\* TRNValidator.validate(S, strict)
ValidateInput ==
    /\ "validate" \notin done
    /\ \E strict \in BOOLEAN :
        \E r \in {validate(State, input, strict)} :
            /\ validation_cache' = r.st.cache
            /\ cache_size' = r.st.size
            /\ last' = [op |-> "validate", arg |-> input, args |-> <<>>, strict |-> strict,
                        obs |-> r.result]
            /\ out' = [out EXCEPT !.validated = r.result]
    /\ done' = done \cup {"validate"}
    /\ UNCHANGED <<max_cache_size, cache_validation_results, input>>

NextStrings == ParseInput \/ StrOfParsed \/ ValidateInput

SpecStrings == InitStrings /\ [][NextStrings]_vars

-----------------------------------------------------------------------------
(* Claims about the validator's entry points, under Spec                   *)

\* C2: with the result cache enabled, a validate call on an input that violates
\* a rule raises a TRN error, on the first call and on every later call with
\* the same input and mode, and validate never returns a false value.
C2_ValidateRaisesOnEveryCall ==
    (last.op = "validate" /\ cache_validation_results) =>
        /\ ValidateString(last.arg, last.strict).error # "none" => last.obs.error # "none"
        /\ ~(last.obs.error = "none" /\ last.obs.value = FALSE)

\* C3: what the caller of validate, is_valid_trn, get_validation_errors or
\* batch_validate_trns observes is what the same call observes in a process
\* with the validation-result cache disabled.
C3_CacheDoesNotChangeOutcomes ==
    last.op # "none" =>
        last.obs = Call(last.op, StateWithoutCache, last.arg, last.args, last.strict).result

-----------------------------------------------------------------------------
(* Claims about component sets, under SpecComponents                       *)

AllOptionalsPresent(c) ==
    c.scope # NONE /\ c.subtype # NONE /\ c.tag # NONE /\ c.hash # NONE

\* C1: parsing the canonical string of a valid component set succeeds and gives
\* back the nine fields of the component set.
C1_ParseOfStringIsIdentity ==
    "parse" \in done => out.parsed = Returned(input)

\* C7: strict string validation accepts the canonical string of every valid
\* component set.
C7_StrictValidationAcceptsCanonical ==
    "validate" \in done => out.validated = Returned(TRUE)

\* C4: for a valid Identifier with any subset of its optional fields present,
\* from_url(to_url(I, "trn")) succeeds and equals I field for field.
C4_UrlRoundTrip ==
    "from_url" \in done => out.from_url = Returned(input)

\* C5: for a valid component set with all nine fields populated,
\* from_url(to_url(C, "trn")) equals C field for field, the percent-encoded
\* characters of version and the hash of the query string included.
C5_UrlRoundTripAllNine ==
    ("from_url" \in done /\ AllOptionalsPresent(input)) => out.from_url = Returned(input)

\* C5 witness: a nine-field Identifier whose version holds a "." (written %2E
\* in the URL) has been read back from its URL with its hash
C5_Witness ==
    /\ "from_url" \in done
    /\ AllOptionalsPresent(input)
    /\ Contains(input.version, ".")
    /\ Contains(out.url, "%")
    /\ out.from_url.error = "none"
    /\ out.from_url.value.hash = input.hash

-----------------------------------------------------------------------------
(* Claims about strings, under SpecStrings                                 *)

\* C8: validation of a string that lacks its version segment is rejected with
\* a ComponentError that names the version field, and with no other error.
C8_MissingVersionIsComponentError ==
    ("validate" \in done /\ input \in VersionlessStrings) =>
        /\ out.validated.error = "TRNComponentError"
        /\ out.validated.info = "version"

\* C9: for a string S that the grammar accepts and parse returns an Identifier
\* for, the canonical string of that Identifier is S.
C9_StringOfParsedIsInput ==
    ("str" \in done /\ TRN_REGEX(input).matched) => out.str = input

-----------------------------------------------------------------------------
(* Segment lists: the same list of segments and the same hash value are    *)
(* mapped by the string recovery parser and by the trn:// URL reader       *)

MaxParts == 8

\* the first segment: the three platforms and one that is not supported
FirstSegments == SUPPORTED_PLATFORMS \cup {<<"o","t","h","e","r">>}

\* the second segment: alphanumeric, hyphenated, and shaped like a version
SecondSegments == {<<"a","b">>, <<"a","-","b">>, <<"v","1">>}

\* the later segments: shaped like a version, or not
LaterSegments == {<<"a","b">>, <<"v","1">>}

SegmentLists ==
    UNION {{<<first, second>> \o later :
                first \in FirstSegments, second \in SecondSegments,
                later \in [1..(n - 2) -> LaterSegments]} : n \in 5..MaxParts}

NotMapped == [recovery |-> NotCalled, url |-> NotCalled]

InitMapping ==
    /\ validation_cache = <<>>
    /\ cache_size = 0
    /\ max_cache_size = MAX_CACHE_SIZE
    /\ cache_validation_results = TRUE
    /\ last = NoCall
    /\ input \in [parts : SegmentLists, hash_value : {NONE, <<"s","h","a","2","5","6",":","a","b","c","1","2","3">>}]
    /\ done = {}
    /\ out = NotMapped

\* TRNParser._map_recovery_components(parts, hash_value, original_trn)
MapRecoveryComponents ==
    /\ "recovery" \notin done
    /\ out' = [out EXCEPT !.recovery = map_recovery_components(input.parts, input.hash_value)]
    /\ done' = done \cup {"recovery"}
    /\ UNCHANGED <<validation_cache, cache_size, max_cache_size, cache_validation_results,
                   last, input>>

\* TRNURLConverter._map_url_components(parts, hash_value)
MapUrlComponents ==
    /\ "url" \notin done
    /\ out' = [out EXCEPT !.url = map_url_components(input.parts, input.hash_value)]
    /\ done' = done \cup {"url"}
    /\ UNCHANGED <<validation_cache, cache_size, max_cache_size, cache_validation_results,
                   last, input>>

NextMapping == MapRecoveryComponents \/ MapUrlComponents

SpecMapping == InitMapping /\ [][NextMapping]_vars

\* C6: on the same list of 5 to 8 segments and the same hash value the two
\* mappings assign the same nine fields, or both reject.
C6_RecoveryMappingsAgree ==
    (done = {"recovery", "url"} /\ Len(input.parts) \in 5..8) =>
        /\ (out.recovery.error = "none") = (out.url.error = "none")
        /\ out.recovery.error = "none" => out.recovery.value = out.url.value

-----------------------------------------------------------------------------
(* Normalisation: a string is normalised, and the result normalised again  *)

MaxLen == 4

\* a letter in each case, inner and outer whitespace, colons, hash separators
NormalizeAlphabet == {"a", "A", " ", ":", "@"}

NormalizeInputs == ListsUpTo(NormalizeAlphabet, MaxLen)

NotNormalized == [once |-> NONE, twice |-> NONE]

InitNormalize ==
    /\ validation_cache = <<>>
    /\ cache_size = 0
    /\ max_cache_size = MAX_CACHE_SIZE
    /\ cache_validation_results = TRUE
    /\ last = NoCall
    /\ input \in NormalizeInputs
    /\ done = {}
    /\ out = NotNormalized

\* TRNParser.normalize_string(S)
NormalizeString ==
    /\ done = {}
    /\ out' = [out EXCEPT !.once = normalize_string(input)]
    /\ done' = {"once"}
    /\ UNCHANGED <<validation_cache, cache_size, max_cache_size, cache_validation_results,
                   last, input>>

\* TRNParser.normalize_string(TRNParser.normalize_string(S))
NormalizeStringAgain ==
    /\ done = {"once"}
    /\ out' = [out EXCEPT !.twice = normalize_string(out.once)]
    /\ done' = {"once", "twice"}
    /\ UNCHANGED <<validation_cache, cache_size, max_cache_size, cache_validation_results,
                   last, input>>

NextNormalize == NormalizeString \/ NormalizeStringAgain

SpecNormalize == InitNormalize /\ [][NextNormalize]_vars

\* C10: normalising a normalised string changes nothing.
C10_NormalizeIsIdempotent == "twice" \in done => out.twice = out.once

-----------------------------------------------------------------------------
(* Identifiers: a component set is handed to the constructor with           *)
(* validate=True, the Identifier built is written as a string, and a       *)
(* component set is validated in either mode                               *)

\* c * n
Repeat(c, n) == [i \in 1..n |-> c]

\* TRN.validate(strict) of TRN(**c, validate=False): the TRNComponents object
\* is built first, then TRNValidator.validate_components is called on it
TRN_validate(c, strict) ==
    construct(FirstError(<<post_init(c), validate_components(c, strict)>>), TRUE)

\* the values the fields are drawn from: in and out of the vocabularies, in and
\* out of the character classes, reserved words, and the empty string
ConstructorPlatforms == SUPPORTED_PLATFORMS \cup {<<"o","t","h","e","r">>}

ConstructorScopes == {NONE, <<>>, <<"a">>, <<"a","l","i","c","e">>}

ConstructorResourceTypes == {<<"t","o","o","l">>, <<"w","i","d","g","e","t">>}

ConstructorTypes == {<<"o","p","e","n","a","p","i">>, <<"O","p","e","n","_","A","P","I">>}

ConstructorInstanceIds == {<<"g","h">>, <<"R","o","o","t">>}

ConstructorHashes ==
    {NONE,
     <<"_","_","a","b","c">>,
     <<"s","h","a","2","5","6",":","a","b","c","1","2","3">>}

\* every field as long as its maximum length allows, the hash a sha256 digest
LongestComponents ==
    Components(<<"u","s","e","r">>,
               Repeat("a", SCOPE_MAX_LENGTH),
               <<"t","o","o","l">>,
               Repeat("b", TYPE_MAX_LENGTH),
               Repeat("c", SUBTYPE_MAX_LENGTH),
               Repeat("d", INSTANCE_ID_MAX_LENGTH),
               <<"1">> \o Repeat("0", VERSION_MAX_LENGTH - 1),
               Repeat("e", TAG_MAX_LENGTH),
               <<"s","h","a","2","5","6",":">> \o Repeat("f", HASH_MAX_LENGTH - 7))

\* one field a character longer than its maximum length
TooLongType == [LongestComponents EXCEPT !.type = Repeat("b", TYPE_MAX_LENGTH + 1)]

ConstructorInputs ==
    {Components(p, sc, rt, ty, NONE, id, <<"v","1",".","0">>, NONE, ha) :
        p \in ConstructorPlatforms, sc \in ConstructorScopes,
        rt \in ConstructorResourceTypes, ty \in ConstructorTypes,
        id \in ConstructorInstanceIds, ha \in ConstructorHashes}
    \cup {LongestComponents, TooLongType}

NotConstructed ==
    [built |-> NotCalled, str |-> <<>>, strict |-> TRUE,
     checked |-> Raised("not_called", "", FALSE)]

InitConstruct ==
    /\ validation_cache = <<>>
    /\ cache_size = 0
    /\ max_cache_size = MAX_CACHE_SIZE
    /\ cache_validation_results = TRUE
    /\ last = NoCall
    /\ input \in ConstructorInputs
    /\ done = {}
    /\ out = NotConstructed

\* TRN(**c, validate=True)
Construct ==
    /\ "construct" \notin done
    /\ out' = [out EXCEPT !.built = TRN(input, TRUE)]
    /\ done' = done \cup {"construct"}
    /\ UNCHANGED <<validation_cache, cache_size, max_cache_size, cache_validation_results,
                   last, input>>

\* str(trn) of the Identifier built
StrOfBuilt ==
    /\ "construct" \in done
    /\ out.built.error = "none"
    /\ "str" \notin done
    /\ out' = [out EXCEPT !.str = build_string(out.built.value)]
    /\ done' = done \cup {"str"}
    /\ UNCHANGED <<validation_cache, cache_size, max_cache_size, cache_validation_results,
                   last, input>>

\* TRN(**c, validate=False).validate(strict)
ValidateComponents ==
    /\ "validate" \notin done
    /\ \E strict \in BOOLEAN :
        out' = [out EXCEPT !.strict = strict, !.checked = TRN_validate(input, strict)]
    /\ done' = done \cup {"validate"}
    /\ UNCHANGED <<validation_cache, cache_size, max_cache_size, cache_validation_results,
                   last, input>>

NextConstruct == Construct \/ StrOfBuilt \/ ValidateComponents

SpecConstruct == InitConstruct /\ [][NextConstruct]_vars

\* C11: every Identifier the constructor built with validate=True has each
\* present field within its character class and its maximum length.
C11_ValidatedFieldsMatchGrammar ==
    ("construct" \in done /\ out.built.error = "none") => GroupsMatch(out.built.value)

\* C12: the canonical string of every Identifier the constructor built with
\* validate=True is between 10 and 256 characters long.
C12_ValidatedStringLengthInRange ==
    "str" \in done => (Len(out.str) >= TRN_MIN_LENGTH /\ Len(out.str) <= TRN_MAX_LENGTH)

\* C13: in the component set of an Identifier the constructor built with
\* validate=True no optional field is the empty string.
C13_AbsentOptionalIsNull ==
    ("construct" \in done /\ out.built.error = "none") =>
        /\ out.built.value.scope # <<>>
        /\ out.built.value.subtype # <<>>
        /\ out.built.value.tag # <<>>
        /\ out.built.value.hash # <<>>

\* a present field is a reserved word in some case, or starts with "__"
HasReservedField(c) ==
    \E i \in 1..Len(ComponentNames) :
        /\ c[ComponentNames[i]] # NONE
        /\ \/ Lower(c[ComponentNames[i]]) \in RESERVED_WORDS
           \/ StartsWith(c[ComponentNames[i]], <<"_","_">>)

\* a present field is longer than its maximum length
HasTooLongField(c) ==
    \E i \in 1..Len(ComponentNames) :
        /\ c[ComponentNames[i]] # NONE
        /\ Len(c[ComponentNames[i]]) > MaxLengthOf(ComponentNames[i])

\* C14: validation, strict or lenient, rejects a component set in which a
\* present field, the hash included, is a reserved word in any case or starts
\* with "__".
C14_ReservedFieldIsRejected ==
    ("validate" \in done /\ HasReservedField(input)) => out.checked.error # "none"

\* C15: lenient validation accepts a component set that is well formed but for
\* a platform or a resource_type outside the vocabularies, and still rejects
\* one with a reserved word or with a field longer than its maximum.
C15_LenientSkipsVocabularies ==
    ("validate" \in done /\ ~out.strict) =>
        /\ ( /\ GroupsMatch(input)
             /\ ~HasReservedField(input)
             /\ \/ input.platform \notin SUPPORTED_PLATFORMS
                \/ input.resource_type \notin SUPPORTED_RESOURCE_TYPES )
           => out.checked = Returned(TRUE)
        /\ (HasReservedField(input) \/ HasTooLongField(input)) => out.checked.error # "none"

\* one of the three conditions of the cross-field rules: a present scope is one
\* that is not None
BreaksBusinessRule(c) ==
    \/ c.platform = <<"u","s","e","r">> /\ c.scope # NONE /\ Len(c.scope) < 2
    \/ c.platform = <<"o","r","g">> /\ c.scope = NONE
    \/ c.platform = <<"a","i","p","l","a","t","f","o","r","m">> /\ c.scope # NONE

\* C16: strict validation rejects a component set that meets one of the three
\* conditions of the cross-field rules, and lenient validation accepts it when
\* nothing else is wrong with it.
C16_BusinessRulesStrictOnly ==
    ("validate" \in done /\ BreaksBusinessRule(input)) =>
        /\ out.strict => out.checked.error # "none"
        /\ ( /\ ~out.strict
             /\ GroupsMatch(input)
             /\ ~HasReservedField(input)
             /\ input.platform \in SUPPORTED_PLATFORMS
             /\ input.resource_type \in SUPPORTED_RESOURCE_TYPES )
           => out.checked = Returned(TRUE)

-----------------------------------------------------------------------------
(* More claims about the validator's entry points, under Spec              *)

\* the rules a string breaks, each check taken on its own: the format check of
\* the whole string, or else the check of every field and the cross-field
\* rules of strict mode
BrokenRulesOf(groups, strict) ==
    ({validate_component(ComponentNames[i], groups[ComponentNames[i]], strict) :
          i \in 1..Len(ComponentNames)}
     \cup {IF strict THEN validate_business_rules(groups) ELSE NoError})
    \ {NoError}

BrokenRules(trn_string, strict) ==
    IF validate_basic_format(trn_string).error # "none"
    THEN {validate_basic_format(trn_string)}
    ELSE BrokenRulesOf(TRN_REGEX(trn_string).groups, strict)

\* C17: get_validation_errors returns a list that holds one message for every
\* rule the input breaks: two or more for two or more broken rules, and none
\* only for a valid input, on the first call and on every later one.
C17_OneMessagePerBrokenRule ==
    last.op = "get_validation_errors" =>
        Len(last.obs) = Cardinality(BrokenRules(last.arg, last.strict))

\* C18: the validation-result cache never holds more entries than the
\* configured capacity, and the size counter is the number of entries.
C18_CacheWithinCapacity ==
    /\ Len(validation_cache) <= max_cache_size
    /\ cache_size = Len(validation_cache)

-----------------------------------------------------------------------------
(* Views of an Identifier: its HTTP URL, read back, and its base name      *)

\* TRNURLConverter.to_url(trn, scheme), scheme http or https
ToHttpUrl ==
    /\ "http_url" \notin done
    /\ \E scheme \in {<<"h","t","t","p">>, <<"h","t","t","p","s">>} :
        out' = [out EXCEPT !.scheme = scheme, !.http_url = to_url(input, scheme).value]
    /\ done' = done \cup {"http_url"}
    /\ UNCHANGED <<validation_cache, cache_size, max_cache_size, cache_validation_results,
                   last, input>>

\* TRNURLConverter.from_url(url) of the HTTP URL
FromHttpUrl ==
    /\ "http_url" \in done
    /\ "from_http" \notin done
    /\ out' = [out EXCEPT !.from_http = from_url(out.http_url, TRUE)]
    /\ done' = done \cup {"from_http"}
    /\ UNCHANGED <<validation_cache, cache_size, max_cache_size, cache_validation_results,
                   last, input>>

\* TRNParser.extract_base_trn(str(trn))
ExtractBaseTrn ==
    /\ "str" \in done
    /\ "base" \notin done
    /\ out' = [out EXCEPT !.base = extract_base_trn(out.str)]
    /\ done' = done \cup {"base"}
    /\ UNCHANGED <<validation_cache, cache_size, max_cache_size, cache_validation_results,
                   last, input>>

NextViews == BuildString \/ ExtractBaseTrn \/ ToHttpUrl \/ FromHttpUrl

SpecViews == InitComponents /\ [][NextViews]_vars

\* the path segments scheme://host/tools/platform/scope/type/subtype/
\* instance_id/version/tag has for an Identifier with every optional field
HttpSegments(c) ==
    <<<<"t","o","o","l","s">>, c.platform, c.scope, c.type, c.subtype, c.instance_id,
      c.version, c.tag>>

\* C19: for an Identifier of resource_type "tool" with every optional field,
\* to_url with scheme http or https gives scheme://host/tools/platform/scope/
\* type/subtype/instance_id/version/tag?hash=..., a URL whose path starts with
\* /tools, and from_url of it returns the Identifier.
C19_HttpUrlRoundTrip ==
    ( /\ "from_http" \in done
      /\ input.resource_type = <<"t","o","o","l">>
      /\ AllOptionalsPresent(input) ) =>
        /\ urlparse(out.http_url).scheme = out.scheme
        /\ StartsWith(urlparse(out.http_url).path, <<"/","t","o","o","l","s","/">>)
        /\ DecodeNonEmpty(Split(urlparse(out.http_url).path, "/")) = HttpSegments(input)
        /\ QueryHash(urlparse(out.http_url).query) = input.hash
        /\ out.from_http = Returned(input)

\* C's own fields up to instance_id, the optional ones when they are present
BaseFields(c) ==
    <<<<"t","r","n">>, c.platform>>
        \o (IF c.scope # NONE THEN <<c.scope>> ELSE <<>>)
        \o <<c.resource_type, c.type>>
        \o (IF c.subtype # NONE THEN <<c.subtype>> ELSE <<>>)
        \o <<c.instance_id>>

\* C20: the base name extract_base_trn gives for the canonical string of a
\* valid component set is "trn" and the set's own platform, scope,
\* resource_type, type, subtype and instance_id joined by colons.
C20_BaseOfCanonicalString ==
    "base" \in done => out.base = Join(BaseFields(input), ":")

-----------------------------------------------------------------------------
(* exceptions.py: the integer code of an exception, as the instance        *)
(* carries it and as ERROR_CODE_MAP assigns it                             *)

\* the subclasses of TRNError, which are the classes that are raised
ErrorClasses ==
    {"TRNFormatError", "TRNValidationError", "TRNComponentError", "TRNHashError",
     "TRNAliasError", "TRNLengthError", "TRNCharacterError", "TRNReservedWordError",
     "TRNPermissionError", "TRNNotFoundError", "TRNConflictError"}

\* the code the __init__ of the class hands to TRNError.__init__: the three
\* subclasses of TRNValidationError call its __init__, which hands on its own
InitCode(class) ==
    CASE class = "TRNFormatError" -> -32000
      [] class = "TRNValidationError" -> -32001
      [] class = "TRNComponentError" -> -32001
      [] class = "TRNHashError" -> -32002
      [] class = "TRNAliasError" -> -32003
      [] class \in {"TRNLengthError", "TRNCharacterError", "TRNReservedWordError"} -> -32001
      [] class = "TRNPermissionError" -> -32020
      [] class = "TRNNotFoundError" -> -32030
      [] class = "TRNConflictError" -> -32031

\* an instance of the class, raised for the string trn
NewError(class, trn) == [class |-> class, trn |-> trn, code |-> InitCode(class)]

ERROR_CODE_MAP ==
    [class \in ErrorClasses |->
        CASE class = "TRNFormatError" -> -32000
          [] class = "TRNValidationError" -> -32001
          [] class = "TRNComponentError" -> -32001
          [] class = "TRNLengthError" -> -32002
          [] class = "TRNCharacterError" -> -32002
          [] class = "TRNReservedWordError" -> -32002
          [] class = "TRNHashError" -> -32003
          [] class = "TRNAliasError" -> -32003
          [] class = "TRNPermissionError" -> -32020
          [] class = "TRNNotFoundError" -> -32030
          [] class = "TRNConflictError" -> -32031]

\* ERROR_CODE_MAP.get(type(exception), -32000)
get_error_code(exception) ==
    IF exception.class \in DOMAIN ERROR_CODE_MAP THEN ERROR_CODE_MAP[exception.class]
    ELSE -32000

\* format_error_response: `exception.code or get_error_code(exception)`
format_error_response(exception) ==
    [code |-> IF exception.code # 0 THEN exception.code ELSE get_error_code(exception),
     type |-> exception.class,
     trn |-> exception.trn]

NoErrorYet ==
    [exception |-> [class |-> "none", trn |-> NONE, code |-> 0], code |-> 0,
     response |-> [code |-> 0, type |-> "none", trn |-> NONE]]

InitErrors ==
    /\ validation_cache = <<>>
    /\ cache_size = 0
    /\ max_cache_size = MAX_CACHE_SIZE
    /\ cache_validation_results = TRUE
    /\ last = NoCall
    /\ input \in [class : ErrorClasses, trn : {NONE} \cup TrnInputs]
    /\ done = {}
    /\ out = NoErrorYet

\* raise Class(message, trn=trn), caught by the caller
RaiseError ==
    /\ done = {}
    /\ out' = [out EXCEPT !.exception = NewError(input.class, input.trn)]
    /\ done' = {"raise"}
    /\ UNCHANGED <<validation_cache, cache_size, max_cache_size, cache_validation_results,
                   last, input>>

\* get_error_code(exception)
GetErrorCode ==
    /\ "raise" \in done
    /\ "get_error_code" \notin done
    /\ out' = [out EXCEPT !.code = get_error_code(out.exception)]
    /\ done' = done \cup {"get_error_code"}
    /\ UNCHANGED <<validation_cache, cache_size, max_cache_size, cache_validation_results,
                   last, input>>

\* format_error_response(exception)
FormatErrorResponse ==
    /\ "raise" \in done
    /\ "format_error_response" \notin done
    /\ out' = [out EXCEPT !.response = format_error_response(out.exception)]
    /\ done' = done \cup {"format_error_response"}
    /\ UNCHANGED <<validation_cache, cache_size, max_cache_size, cache_validation_results,
                   last, input>>

NextErrors == RaiseError \/ GetErrorCode \/ FormatErrorResponse

SpecErrors == InitErrors /\ [][NextErrors]_vars

\* C21: for every error class, the code an instance carries, which is the
\* code format_error_response reports, is the code get_error_code gives for
\* the instance.
C21_ErrorCodeIsStable ==
    /\ "get_error_code" \in done => out.exception.code = out.code
    /\ {"get_error_code", "format_error_response"} \subseteq done =>
           out.response.code = out.code

-----------------------------------------------------------------------------
(* utils.py: comparing versions                                            *)

VERSION_OPERATORS == {"==", "!=", ">", ">=", "<", "<=", "~", "^"}

\* the digits re.match(r'(\d+)', part) captures, empty when there is no match
RECURSIVE DigitRun(_)
DigitRun(part) ==
    IF part = <<>> \/ part[1] \notin DigitChars THEN <<>>
    ELSE <<part[1]>> \o DigitRun(Tail(part))

DigitValue(c) == CHOOSE n \in 0..9 : <<"0","1","2","3","4","5","6","7","8","9">>[n + 1] = c

\* int(match.group(1))
RECURSIVE IntOf(_)
IntOf(digits) ==
    IF digits = <<>> THEN 0
    ELSE 10 * IntOf(SubSeq(digits, 1, Len(digits) - 1)) + DigitValue(digits[Len(digits)])

\* while len(parts) < 3: parts.append(0)
RECURSIVE PadToThree(_)
PadToThree(parts) == IF Len(parts) < 3 THEN PadToThree(Append(parts, 0)) ELSE parts

PartsOfVersion(segments) ==
    [i \in 1..Len(segments) |->
        IF DigitRun(segments[i]) # <<>> THEN IntOf(DigitRun(segments[i])) ELSE 0]

parse_version(version) ==
    PadToThree(PartsOfVersion(
        Split(IF StartsWith(version, <<"v">>) THEN Tail(version) ELSE version, ".")))

\* Python's < on two tuples of integers
RECURSIVE TupleLess(_, _)
TupleLess(a, b) ==
    IF a = <<>> THEN b # <<>>
    ELSE IF b = <<>> THEN FALSE
    ELSE IF a[1] # b[1] THEN a[1] < b[1]
    ELSE TupleLess(Tail(a), Tail(b))

\* parts[:n]
Slice(parts, n) == SubSeq(parts, 1, IF n < Len(parts) THEN n ELSE Len(parts))

alias_order ==
    (<<"d","e","v">> :> 0) @@ (<<"a","l","p","h","a">> :> 1) @@ (<<"b","e","t","a">> :> 2) @@ (<<"r","c">> :> 3) @@
    (<<"s","t","a","b","l","e">> :> 4) @@ (<<"l","a","t","e","s","t">> :> 5) @@ (<<"l","t","s">> :> 4)

OrderCompare(order1, order2, operator) ==
    CASE operator = "==" -> order1 = order2
      [] operator = "!=" -> order1 # order2
      [] operator = ">" -> order1 > order2
      [] operator = ">=" -> order1 >= order2
      [] operator = "<" -> order1 < order2
      [] operator = "<=" -> order1 <= order2

compare_alias_versions(version1, version2, operator) ==
    IF /\ version1 \in DOMAIN alias_order
       /\ version2 \in DOMAIN alias_order
       /\ operator \in {"==", "!=", ">", ">=", "<", "<="}
    THEN OrderCompare(alias_order[version1], alias_order[version2], operator)
    ELSE IF operator \in {"==", "!="} THEN operator = "!=" ELSE FALSE

PartsCompare(v1_parts, v2_parts, operator) ==
    CASE operator = "==" -> v1_parts = v2_parts
      [] operator = "!=" -> v1_parts # v2_parts
      [] operator = ">" -> TupleLess(v2_parts, v1_parts)
      [] operator = ">=" -> ~TupleLess(v1_parts, v2_parts)
      [] operator = "<" -> TupleLess(v1_parts, v2_parts)
      [] operator = "<=" -> ~TupleLess(v2_parts, v1_parts)
      [] operator = "~" -> Slice(v1_parts, 2) = Slice(v2_parts, 2)
      [] operator = "^" -> v1_parts[1] = v2_parts[1] /\ ~TupleLess(v1_parts, v2_parts)
      [] OTHER -> FALSE

compare_trn_versions(version1, version2, operator) ==
    IF operator \notin VERSION_OPERATORS THEN Raised("ValueError", operator, FALSE)
    ELSE IF version1 \in COMMON_ALIASES \/ version2 \in COMMON_ALIASES
    THEN Returned(compare_alias_versions(version1, version2, operator))
    ELSE Returned(PartsCompare(parse_version(version1), parse_version(version2), operator))

\* the versions compared: the eight aliases and numeric versions of one to
\* four segments, with and without the leading v and a suffix
NumericVersions ==
    {<<"v","1",".","0">>, <<"1",".","0",".","0">>, <<"2">>, <<"v","1",".","2",".","3","-","b","e","t","a">>, <<"1",".","1","0">>, <<"1",".","9",".","x">>, <<"1",".","2",".","3",".","0">>, <<"1",".","2",".","3">>}

VersionInputs == COMMON_ALIASES \cup NumericVersions

OperatorInputs == VERSION_OPERATORS \cup {"=~"}

\* the identifier string whose version field is the version
WithVersion(version) == <<"t","r","n",":","u","s","e","r",":","a","l","i","c","e",":","t","o","o","l",":","o","p","e","n","a","p","i",":","g","i","t","h","u","b","-","a","p","i",":">> \o version

NotCompared ==
    [validated |-> Error("not_called", ""), parts1 |-> <<>>, parts2 |-> <<>>,
     result |-> Raised("not_called", "", FALSE)]

InitVersions ==
    /\ validation_cache = <<>>
    /\ cache_size = 0
    /\ max_cache_size = MAX_CACHE_SIZE
    /\ cache_validation_results = TRUE
    /\ last = NoCall
    /\ input \in [version1 : VersionInputs, version2 : VersionInputs,
                  operator : OperatorInputs]
    /\ done = {}
    /\ out = NotCompared

\* TRNValidator.validate(string with version1 as its version, strict=True)
ValidateVersion ==
    /\ "validate" \notin done
    /\ out' = [out EXCEPT !.validated = ValidateString(WithVersion(input.version1), TRUE)]
    /\ done' = done \cup {"validate"}
    /\ UNCHANGED <<validation_cache, cache_size, max_cache_size, cache_validation_results,
                   last, input>>

\* _parse_version on each side
ParseVersion ==
    /\ "parse_version" \notin done
    /\ out' = [out EXCEPT !.parts1 = parse_version(input.version1),
                          !.parts2 = parse_version(input.version2)]
    /\ done' = done \cup {"parse_version"}
    /\ UNCHANGED <<validation_cache, cache_size, max_cache_size, cache_validation_results,
                   last, input>>

\* compare_trn_versions(version1, version2, operator)
CompareTrnVersions ==
    /\ "compare" \notin done
    /\ out' = [out EXCEPT !.result =
                   compare_trn_versions(input.version1, input.version2, input.operator)]
    /\ done' = done \cup {"compare"}
    /\ UNCHANGED <<validation_cache, cache_size, max_cache_size, cache_validation_results,
                   last, input>>

NextVersions == ValidateVersion \/ ParseVersion \/ CompareTrnVersions

SpecVersions == InitVersions /\ [][NextVersions]_vars

\* C22: strict validation accepts, as the version field, every member of
\* COMMON_ALIASES and every version that starts with a number.
C22_StrictAcceptsAliasesAndNumbers ==
    "validate" \in done => out.validated.error = "none"

\* the fixed order dev < alpha < beta < rc < stable = lts < latest
RankedAliases ==
    <<{<<"d","e","v">>}, {<<"a","l","p","h","a">>}, {<<"b","e","t","a">>}, {<<"r","c">>}, {<<"s","t","a","b","l","e">>, <<"l","t","s">>}, {<<"l","a","t","e","s","t">>}>>

RankOf(alias) == CHOOSE n \in 1..Len(RankedAliases) : alias \in RankedAliases[n]

IsRanked(alias) == \E n \in 1..Len(RankedAliases) : alias \in RankedAliases[n]

\* C23: when either side is in COMMON_ALIASES, two aliases compare under ==,
\* !=, >, >=, <, <= by their rank in the fixed order, an alias is == to
\* itself, and an alias against a non-alias is true for != only.
C23_AliasesCompareByFixedOrder ==
    ("compare" \in done /\ input.operator \in VERSION_OPERATORS
        /\ (input.version1 \in COMMON_ALIASES \/ input.version2 \in COMMON_ALIASES)) =>
    IF input.version1 \in COMMON_ALIASES /\ input.version2 \in COMMON_ALIASES
    THEN input.operator \in {"==", "!=", ">", ">=", "<", "<="} =>
            /\ (IsRanked(input.version1) /\ IsRanked(input.version2)) =>
                   out.result = Returned(OrderCompare(RankOf(input.version1),
                                                      RankOf(input.version2),
                                                      input.operator))
            /\ input.version1 = input.version2 =>
                   out.result = Returned(input.operator \in {"==", ">=", "<="})
    ELSE out.result = Returned(input.operator = "!=")

\* lexicographic < on two tuples of three integers
Less3(a, b) ==
    \/ a[1] < b[1]
    \/ a[1] = b[1] /\ a[2] < b[2]
    \/ a[1] = b[1] /\ a[2] = b[2] /\ a[3] < b[3]

Compare3(a, b, operator) ==
    CASE operator = "==" -> a = b
      [] operator = "!=" -> a # b
      [] operator = ">" -> Less3(b, a)
      [] operator = ">=" -> ~Less3(a, b)
      [] operator = "<" -> Less3(a, b)
      [] operator = "<=" -> ~Less3(b, a)
      [] operator = "~" -> a[1] = b[1] /\ a[2] = b[2]
      [] operator = "^" -> a[1] = b[1] /\ ~Less3(a, b)

\* C24: two versions outside COMMON_ALIASES are each parsed into exactly
\* three integers, and every operator is the comparison of the two triples.
C24_NumericVersionsCompareAsTriples ==
    ({"parse_version", "compare"} \subseteq done /\ input.operator \in VERSION_OPERATORS
        /\ input.version1 \notin COMMON_ALIASES /\ input.version2 \notin COMMON_ALIASES) =>
    /\ Len(out.parts1) = 3
    /\ Len(out.parts2) = 3
    /\ out.result = Returned(Compare3(out.parts1, out.parts2, input.operator))

-----------------------------------------------------------------------------
(* The report of batch_validate_trns on a list, called twice so that the   *)
(* second call finds the cache the first one left                          *)

NoReport == batch_validate_trns(StateWithoutCache, <<>>, TRUE).result

InitBatch ==
    /\ validation_cache = <<>>
    /\ cache_size = 0
    /\ max_cache_size \in 1..MaxCapacity
    /\ cache_validation_results \in BOOLEAN
    /\ last = NoCall
    /\ input \in [trn_list : ListsUpTo(TrnInputs, MaxBatch), strict : BOOLEAN]
    /\ done = {}
    /\ out = [first |-> NoReport, second |-> NoReport]

\* the call r of batch_validate_trns on input: the cache it leaves, and its
\* report in the field of out
Report(field, r) ==
    /\ validation_cache' = r.st.cache
    /\ cache_size' = r.st.size
    /\ out' = [out EXCEPT ![field] = r.result]
    /\ done' = done \cup {field}
    /\ UNCHANGED <<max_cache_size, cache_validation_results, last, input>>

BatchFirst ==
    /\ done = {}
    /\ Report("first", batch_validate_trns(State, input.trn_list, input.strict))

BatchSecond ==
    /\ done = {"first"}
    /\ Report("second", batch_validate_trns(State, input.trn_list, input.strict))

NextBatch == BatchFirst \/ BatchSecond

SpecBatch == InitBatch /\ [][NextBatch]_vars

CountsAddUp(trn_list, report) ==
    /\ report.valid_count + report.invalid_count = report.total_count
    /\ report.total_count = Len(trn_list)
    /\ report.success_rate =
           IF trn_list = <<>> THEN <<0, 1>>
           ELSE <<report.valid_count, report.total_count>>

\* C25: the report of batch_validate_trns on any list has valid_count +
\* invalid_count = total_count = the length of the list, and success_rate =
\* valid_count / total_count, 0.0 for the empty list.
C25_BatchCountsAddUp ==
    /\ "first" \in done => CountsAddUp(input.trn_list, out.first)
    /\ "second" \in done => CountsAddUp(input.trn_list, out.second)

\* a report on a list that mixes an accepted and a rejected string
C25_Witness ==
    /\ "first" \in done
    /\ out.first.valid_count = 1
    /\ out.first.invalid_count = 1

-----------------------------------------------------------------------------
(* utils.py: matching a string against a pattern                           *)

\* the characters of the strings and patterns below, in the order of their
\* code points
CodePointOrder ==
    <<"\n", " ", "!", "*", "-", ".", "0", "1", "2", "3", "4", "5", "6", "7", "8", "9",
      ":", "?", "@", "A", "B", "C", "D", "E", "F", "G", "H", "I", "J", "K", "L", "M",
      "N", "O", "P", "Q", "R", "S", "T", "U", "V", "W", "X", "Y", "Z", "[", "]", "_",
      "a", "b", "c", "d", "e", "f", "g", "h", "i", "j", "k", "l", "m", "n", "o", "p",
      "q", "r", "s", "t", "u", "v", "w", "x", "y", "z">>

Ord(c) == CHOOSE n \in 1..Len(CodePointOrder) : CodePointOrder[n] = c

\* fnmatch.translate: the index of the ] that closes the [ at pat[1], 0 when
\* there is none and the [ stands for itself
FirstBracketFrom(pat, j) ==
    IF \E k \in j..Len(pat) : pat[k] = "]"
    THEN CHOOSE k \in j..Len(pat) : pat[k] = "]" /\ \A m \in j..(k - 1) : pat[m] # "]"
    ELSE 0

AfterBang(pat) == IF Len(pat) >= 2 /\ pat[2] = "!" THEN 3 ELSE 2

ClassEnd(pat) ==
    FirstBracketFrom(pat,
        IF AfterBang(pat) <= Len(pat) /\ pat[AfterBang(pat)] = "]"
        THEN AfterBang(pat) + 1 ELSE AfterBang(pat))

\* c is one of the characters and ranges a class lists
RECURSIVE ClassMember(_, _)
ClassMember(c, items) ==
    IF items = <<>> THEN FALSE
    ELSE IF Len(items) >= 3 /\ items[2] = "-"
    THEN \/ Ord(items[1]) <= Ord(c) /\ Ord(c) <= Ord(items[3])
         \/ ClassMember(c, SubSeq(items, 4, Len(items)))
    ELSE c = items[1] \/ ClassMember(c, Tail(items))

\* the class [stuff]: [] matches nothing, [!] any character, [!...] the
\* characters not listed
InClass(c, stuff) ==
    IF stuff = <<>> THEN FALSE
    ELSE IF stuff = <<"!">> THEN TRUE
    ELSE IF stuff[1] = "!" THEN ~ClassMember(c, Tail(stuff))
    ELSE ClassMember(c, stuff)

\* the number of characters at the start of pat that stand for themselves
LiteralRun(pat) ==
    IF \E k \in 1..Len(pat) : pat[k] \in {"*", "?", "["}
    THEN (CHOOSE k \in 1..Len(pat) :
              pat[k] \in {"*", "?", "["} /\ \A m \in 1..(k - 1) : pat[m] \notin {"*", "?", "["})
         - 1
    ELSE Len(pat)

\* fnmatch.fnmatch(name, pat) where os.path.normcase changes nothing: the
\* whole of name matches the translation of pat, read one run of plain
\* characters, one *, one ? or one class at a time
RECURSIVE fnmatch(_, _)
fnmatch(name, pat) ==
    IF pat = <<>> THEN name = <<>>
    ELSE IF LiteralRun(pat) > 0
    THEN /\ StartsWith(name, SubSeq(pat, 1, LiteralRun(pat)))
         /\ fnmatch(SubSeq(name, LiteralRun(pat) + 1, Len(name)),
                    SubSeq(pat, LiteralRun(pat) + 1, Len(pat)))
    ELSE IF pat[1] = "*"
    THEN \E k \in 0..Len(name) : fnmatch(SubSeq(name, k + 1, Len(name)), Tail(pat))
    ELSE IF name = <<>> THEN FALSE
    ELSE IF pat[1] = "?" THEN fnmatch(Tail(name), Tail(pat))
    ELSE IF ClassEnd(pat) > 0
    THEN /\ InClass(name[1], SubSeq(pat, 2, ClassEnd(pat) - 1))
         /\ fnmatch(Tail(name), SubSeq(pat, ClassEnd(pat) + 1, Len(pat)))
    ELSE name[1] = "[" /\ fnmatch(Tail(name), Tail(pat))

match_trn_pattern(trn_string, pattern) == fnmatch(trn_string, pattern)

\* TRNMatcher(pattern).matches(trn_string)
TRNMatcher_matches(pattern, trn_string) ==
    IF Contains(pattern, "*") \/ Contains(pattern, "?") THEN fnmatch(trn_string, pattern)
    ELSE trn_string = pattern

\* the patterns made from a string: the string itself, its start and a *,
\* its last character replaced by ?, by a class, by a negated class and by a
\* class left open, a * in the middle, and another string
PatternShapes ==
    {"same", "star", "question", "class", "negated", "open", "middle", "other"}

ButLast(s) == SubSeq(s, 1, Len(s) - 1)

PatternOf(s, shape) ==
    CASE shape = "same" -> s
      [] shape = "star" -> SubSeq(s, 1, 9) \o <<"*">>
      [] shape = "question" -> ButLast(s) \o <<"?">>
      [] shape = "class" -> ButLast(s) \o <<"[","0","-","9","a","-","z","]">>
      [] shape = "negated" -> ButLast(s) \o <<"[","!",":","]">>
      [] shape = "open" -> ButLast(s) \o <<"[","0","-","9">>
      [] shape = "middle" -> <<"t","r","n",":","*">> \o SubSeq(s, Len(s) - 4, Len(s))
      [] shape = "other" -> <<"t","r","n",":","u","s","e","r",":","a","l","i","c","e",":","t","o","o","l",":","o","p","e","n","a","p","i",":","g","i","t","h","u","b","-","a","p","i",":","v","1",".","0">>

NotMatched == [pattern |-> NONE, match |-> FALSE, matcher |-> FALSE]

InitMatch ==
    /\ validation_cache = <<>>
    /\ cache_size = 0
    /\ max_cache_size = MAX_CACHE_SIZE
    /\ cache_validation_results = TRUE
    /\ last = NoCall
    /\ input \in [trn_string : CanonicalStrings, shape : PatternShapes]
    /\ done = {}
    /\ out = NotMatched

\* match_trn_pattern(trn_string, pattern)
MatchTrnPattern ==
    /\ "match" \notin done
    /\ out' = [out EXCEPT
                   !.pattern = PatternOf(input.trn_string, input.shape),
                   !.match = match_trn_pattern(input.trn_string,
                                               PatternOf(input.trn_string, input.shape))]
    /\ done' = done \cup {"match"}
    /\ UNCHANGED <<validation_cache, cache_size, max_cache_size, cache_validation_results,
                   last, input>>

\* TRNMatcher(pattern).matches(trn_string)
MatcherMatches ==
    /\ "matcher" \notin done
    /\ out' = [out EXCEPT
                   !.pattern = PatternOf(input.trn_string, input.shape),
                   !.matcher = TRNMatcher_matches(PatternOf(input.trn_string, input.shape),
                                                  input.trn_string)]
    /\ done' = done \cup {"matcher"}
    /\ UNCHANGED <<validation_cache, cache_size, max_cache_size, cache_validation_results,
                   last, input>>

NextMatch == MatchTrnPattern \/ MatcherMatches

SpecMatch == InitMatch /\ [][NextMatch]_vars

\* C26: a canonical string matches itself, a pattern without * and ? matches
\* only the string equal to it, and match_trn_pattern and TRNMatcher.matches
\* give the same answer.
C26_PatternMatching ==
    /\ ("match" \in done /\ out.pattern = input.trn_string) => out.match
    /\ ("match" \in done /\ out.match
            /\ ~Contains(out.pattern, "*") /\ ~Contains(out.pattern, "?")) =>
           out.pattern = input.trn_string
    /\ {"match", "matcher"} \subseteq done => out.match = out.matcher

-----------------------------------------------------------------------------
(* The recovery reading of seven parts, under SpecMapping                  *)

\* C27: the recovery mapping of 7 parts reads them, when the second is
\* scope-like, with scope and subtype if the last is version-like and with
\* scope and tag if not; when the second is not scope-like, with subtype and
\* tag if the last is version-like, and rejects them as ambiguous if not.
C27_SevenPartsByHeuristics ==
    ("recovery" \in done /\ Len(input.parts) = 7) =>
        IF looks_like_scope(input.parts[2], input.parts[1])
        THEN out.recovery =
                 Returned(IF looks_like_version(input.parts[7])
                          THEN ReadScopeSubtype(input.parts, input.hash_value)
                          ELSE ReadScopeTag(input.parts, input.hash_value))
        ELSE IF looks_like_version(input.parts[7])
        THEN out.recovery = Returned(ReadSubtypeTag(input.parts, input.hash_value))
        ELSE out.recovery = Raised("TRNFormatError", "ambiguous", NoComponents)

-----------------------------------------------------------------------------
(* The base name of an Identifier, from the object and from its string     *)

\* TRN.get_base_trn
get_base_trn(c) == TRN([c EXCEPT !.version = <<"*">>, !.tag = NONE, !.hash = NONE], FALSE)

\* utils.extract_base_trn(trn_input) for a TRN object: str(get_base_trn())
extract_base_trn_of_object(c) == build_string(get_base_trn(c).value)

\* extract_base_trn(TRN(**c))
ExtractBaseTrnOfObject ==
    /\ "base_of_object" \notin done
    /\ out' = [out EXCEPT !.base_of_object = extract_base_trn_of_object(input)]
    /\ done' = done \cup {"base_of_object"}
    /\ UNCHANGED <<validation_cache, cache_size, max_cache_size, cache_validation_results,
                   last, input>>

NextBase == BuildString \/ ExtractBaseTrn \/ ExtractBaseTrnOfObject

SpecBase == InitComponents /\ [][NextBase]_vars

\* C29: for every valid Identifier, extract_base_trn on the object and on
\* its string return the same string, which ends at instance_id.
C29_BaseOfObjectAndOfString ==
    /\ "base_of_object" \in done => out.base_of_object = Join(BaseFields(input), ":")
    /\ {"base", "base_of_object"} \subseteq done => out.base_of_object = out.base

-----------------------------------------------------------------------------
(* The two strict entry points on the same string                          *)

\* strings TRN_REGEX does not match, for the underscore in the type, and the
\* recovery parser reads: with a scope, with a tag, with a subtype, without a
\* scope, and with a hash
RecoveryStrings ==
    {<<"t","r","n",":","u","s","e","r",":","a","l","i","c","e",":","t","o","o","l",":","o","p","e","n","_","a","p","i",":","g","h",":","v","1",".","0">>,
     <<"t","r","n",":","o","r","g",":","a","1",":","t","o","o","l",":","o","p","e","n","_","a","p","i",":","g","h",":","v","1",".","0",":","b","e","t","a">>,
     <<"t","r","n",":","u","s","e","r",":","a","l","i","c","e",":","t","o","o","l",":","o","p","e","n","_","a","p","i",":","a","s","y","n","c",":","g","h",":","l","a","t","e","s","t">>,
     <<"t","r","n",":","a","i","p","l","a","t","f","o","r","m",":","t","o","o","l",":","o","p","e","n","_","a","p","i",":","g","h",":","v","1",".","0">>,
     <<"t","r","n",":","u","s","e","r",":","a","l","i","c","e",":","t","o","o","l",":","o","p","e","n","_","a","p","i",":","g","h",":","v","1",".","0","@","s","h","a","2","5","6",":","a","b","c","d","e","f","1","2">>}

InitEntryPoints ==
    /\ validation_cache = <<>>
    /\ cache_size = 0
    /\ max_cache_size = MAX_CACHE_SIZE
    /\ cache_validation_results = TRUE
    /\ last = NoCall
    /\ input \in StringInputs \cup RecoveryStrings
    /\ done = {}
    /\ out = NoOutputs

SpecEntryPoints == InitEntryPoints /\ [][NextStrings]_vars

\* C30: on a string that normalize_string leaves as it is,
\* TRNValidator.validate(S, strict=True) returns exactly when
\* TRN.parse(S, validate=True) returns an Identifier.
C30_StrictEntryPointsAgree ==
    ({"parse", "validate"} \subseteq done /\ last.strict
        /\ normalize_string(input) = input) =>
    (out.validated.error = "none") = (out.parsed.error = "none")

-----------------------------------------------------------------------------
(* The cache before and after each call of validate                        *)

InitCache ==
    /\ validation_cache = <<>>
    /\ cache_size = 0
    /\ max_cache_size \in 1..MaxCapacity
    /\ cache_validation_results \in BOOLEAN
    /\ last = NoCall
    /\ input = <<>>
    /\ done = {}
    /\ out = [before |-> <<>>]

\* TRNValidator.validate(s, strict); out keeps the cache the call found
ValidateOnCache ==
    \E s \in TrnInputs, strict \in BOOLEAN :
        \E r \in {validate(State, s, strict)} :
            /\ validation_cache' = r.st.cache
            /\ cache_size' = r.st.size
            /\ last' = [op |-> "validate", arg |-> s, args |-> <<>>, strict |-> strict,
                        obs |-> r.result]
            /\ out' = [before |-> validation_cache]
            /\ UNCHANGED <<max_cache_size, cache_validation_results, input, done>>

\* TRNValidator.clear_cache()
ClearTheCache ==
    /\ validation_cache' = <<>>
    /\ cache_size' = 0
    /\ last' = NoCall
    /\ out' = [before |-> validation_cache]
    /\ UNCHANGED <<max_cache_size, cache_validation_results, input, done>>

NextCache == ValidateOnCache \/ ClearTheCache

SpecCache == InitCache /\ [][NextCache]_vars

\* after is before without its first n entries, followed by an entry for key
InsertedAfterDropping(before, n, after, key) ==
    /\ Len(after) = Len(before) - n + 1
    /\ SubSeq(after, 1, Len(after) - 1) = SubSeq(before, n + 1, Len(before))
    /\ after[Len(after)].key = key

\* C28: a call of validate that finds its key in the cache leaves the
\* entries and their order as they are; a call that inserts a result into a
\* cache at capacity removes the oldest floor(size / 2) entries and keeps
\* every later one, in order, before the new entry.
C28_OldestHalfEvicted ==
    (last.op = "validate" /\ cache_validation_results) =>
        IF InCache(out.before, cache_key(last.arg, last.strict))
        THEN validation_cache = out.before
        ELSE InsertedAfterDropping(
                 out.before,
                 IF Len(out.before) >= max_cache_size THEN Len(out.before) \div 2 ELSE 0,
                 validation_cache, cache_key(last.arg, last.strict))

\* an insertion into a full cache that removed at least one entry and kept
\* at least one
C28_Witness ==
    /\ last.op = "validate"
    /\ cache_validation_results
    /\ ~InCache(out.before, cache_key(last.arg, last.strict))
    /\ Len(out.before) >= max_cache_size
    /\ Len(out.before) \div 2 >= 1
    /\ Len(validation_cache) >= 2

====
